---- MODULE Spec2Model ----
(***************************************************************************)
(* lihil_mcp: the registry builder (LihilMCP._setup_mcp_endpoints and the  *)
(* _register_* methods), the schema inferer (_generate_input_schema) and   *)
(* the dispatcher (_call_endpoint, _call_endpoint_as_resource) of          *)
(* src/lihil_mcp/server.py.                                                *)
(*                                                                         *)
(* Python strings are sequences of one-character strings, so that slugs,   *)
(* f-strings and substring tests are computed and not assumed.             *)
(***************************************************************************)
EXTENDS Integers, Sequences, FiniteSets, TLC

\* ------------------------------------------------------------------------
\* Bounds of the model
\* ------------------------------------------------------------------------
\* number of routes of the wrapped application
MaxRoutes == 2
\* number of calls of _setup_mcp_endpoints over the life of one instance
MaxSetupCalls == 2
\* number of parameters of a callable handed to _generate_input_schema
MaxParams == 2
\* at most this many decorators are applied to one function
MaxDecorations == 2

\* ------------------------------------------------------------------------
\* String literals of the source
\* ------------------------------------------------------------------------
S_scheme == <<"l", "i", "h", "i", "l", ":", "/", "/">>
S_Tool == <<"T", "o", "o", "l", " ">>
S_Resource == <<"R", "e", "s", "o", "u", "r", "c", "e", " ">>
S_not_found == <<" ", "n", "o", "t", " ", "f", "o", "u", "n", "d">>
S_ErrCalling == <<"E", "r", "r", "o", "r", " ", "c", "a", "l", "l", "i", "n", "g", " ", "e", "n", "d", "p", "o", "i", "n", "t", " ">>
S_ErrAccessing == <<"E", "r", "r", "o", "r", " ", "a", "c", "c", "e", "s", "s", "i", "n", "g", " ", "r", "e", "s", "o", "u", "r", "c", "e", " ">>
S_colon == <<":", " ">>
S_FailedRegister == <<"F", "a", "i", "l", "e", "d", " ", "t", "o", " ", "r", "e", "g", "i", "s", "t", "e", "r", " ", "e", "n", "d", "p", "o", "i", "n", "t", " ">>
S_ToolDefault == <<"T", "o", "o", "l", ":", " ">>
S_ResourceDefault == <<"R", "e", "s", "o", "u", "r", "c", "e", ":", " ">>
S_AutoTool == <<"A", "u", "t", "o", "-", "e", "x", "p", "o", "s", "e", "d", " ", "t", "o", "o", "l", ":", " ">>
S_AutoResource == <<"A", "u", "t", "o", "-", "e", "x", "p", "o", "s", "e", "d", " ", "r", "e", "s", "o", "u", "r", "c", "e", ":", " ">>
S_MissingArg == <<"m", "i", "s", "s", "i", "n", "g", " ", "a", " ", "r", "e", "q", "u", "i", "r", "e", "d", " ", "a", "r", "g", "u", "m", "e", "n", "t", ":", " ", "'">>
S_quote == <<"'">>
S_UnexpectedArg == <<"g", "o", "t", " ", "a", "n", " ", "u", "n", "e", "x", "p", "e", "c", "t", "e", "d", " ", "k", "e", "y", "w", "o", "r", "d", " ", "a", "r", "g", "u", "m", "e", "n", "t", " ", "'">>
S_json == <<"a", "p", "p", "l", "i", "c", "a", "t", "i", "o", "n", "/", "j", "s", "o", "n">>
S_MissingPositional == <<"(", ")", " ", "m", "i", "s", "s", "i", "n", "g", " ", "1", " ", "r", "e", "q", "u", "i", "r", "e", "d", " ", "p", "o", "s", "i", "t", "i", "o", "n", "a", "l", " ", "a", "r", "g", "u", "m", "e", "n", "t", ":", " ", "'">>
S_mcp == <<"/", "m", "c", "p">>
S_POST == <<"P", "O", "S", "T">>
S_PUT == <<"P", "U", "T">>
S_PATCH == <<"P", "A", "T", "C", "H">>
S_GET == <<"G", "E", "T">>
UpperChar(c) ==
    CASE c = "a" -> "A"
      [] c = "b" -> "B"
      [] c = "c" -> "C"
      [] c = "d" -> "D"
      [] c = "e" -> "E"
      [] c = "f" -> "F"
      [] c = "g" -> "G"
      [] c = "h" -> "H"
      [] c = "i" -> "I"
      [] c = "j" -> "J"
      [] c = "k" -> "K"
      [] c = "l" -> "L"
      [] c = "m" -> "M"
      [] c = "n" -> "N"
      [] c = "o" -> "O"
      [] c = "p" -> "P"
      [] c = "q" -> "Q"
      [] c = "r" -> "R"
      [] c = "s" -> "S"
      [] c = "t" -> "T"
      [] c = "u" -> "U"
      [] c = "v" -> "V"
      [] c = "w" -> "W"
      [] c = "x" -> "X"
      [] c = "y" -> "Y"
      [] c = "z" -> "Z"
      [] OTHER -> c

\* ------------------------------------------------------------------------
\* Names, paths and texts of the sample application
\* ------------------------------------------------------------------------
N_add == <<"a", "d", "d">>
N_fail == <<"f", "a", "i", "l">>
N_health == <<"h", "e", "a", "l", "t", "h">>
N_status == <<"s", "t", "a", "t", "u", "s">>
N_obj == <<"o", "b", "j">>
N_need == <<"n", "e", "e", "d">>
N_alias == <<"a", "l", "i", "a", "s">>
P_alias == <<"/", "a", "l", "i", "a", "s">>
N_nonexistent == <<"n", "o", "p", "e">>
U_health == <<"l", "i", "h", "i", "l", ":", "/", "/", "a", "_", "b">>
P_add == <<"/", "a", "d", "d">>
P_a_b == <<"/", "a", "/", "b">>
P_a_b_flat == <<"/", "a", "_", "b", "/">>
P_root == <<"/">>
M_DELETE == <<"D", "E", "L", "E", "T", "E">>
M_put == <<"p", "u", "t">>
M_Patch == <<"P", "a", "t", "c", "h">>
T_sum == <<"s", "u", "m">>
T_doc == <<"d", "o", "c">>
T_boom == <<"b", "o", "o", "m">>
T_up == <<"u", "p">>
T_ok == <<"o", "k">>
T_objrepr == <<"<", "o", ">">>
T_coroutine == <<"<", "c", "o", "r", "o", "u", "t", "i", "n", "e", ">">>
T_not_awaitable == <<"c", "a", "n", "'", "t", " ", "b", "e", " ", "u", "s", "e", "d", " ", "i", "n", " ", "'", "a", "w", "a", "i", "t", "'", " ", "e", "x", "p", "r", "e", "s", "s", "i", "o", "n">>
T_rejected == <<"r", "e", "j", "e", "c", "t", "e", "d">>

\* ------------------------------------------------------------------------
\* Python string operations used by the source
\* ------------------------------------------------------------------------
\* str.upper()
Upper(s) == [i \in 1..Len(s) |-> UpperChar(s[i])]

\* a replace that finds nothing: the string as it is
ReplaceNothing(s, old, new) == s
\* str.replace(old, new) for one-character old and new
Replace(s, old, new) == [i \in 1..Len(s) |-> IF s[i] = old THEN new ELSE s[i]]

RECURSIVE LStrip(_, _)
LStrip(s, c) == IF Len(s) > 0 /\ s[1] = c THEN LStrip(SubSeq(s, 2, Len(s)), c) ELSE s

RECURSIVE RStrip(_, _)
RStrip(s, c) == IF Len(s) > 0 /\ s[Len(s)] = c THEN RStrip(SubSeq(s, 1, Len(s) - 1), c) ELSE s

\* str.strip(c) for a one-character c
Strip(s, c) == RStrip(LStrip(s, c), c)

\* sub in s
Contains(s, sub) == \E i \in 1..(Len(s) - Len(sub) + 1) : SubSeq(s, i, i + Len(sub) - 1) = sub

\* a or b, for values that are a string or None (None and "" are both falsy)
Or(a, b) == IF Len(a) > 0 THEN a ELSE b

\* the text of a parameter name inside a message
NameText(n) ==
    CASE n = "self" -> <<"s", "e", "l", "f">>
      [] n = "cls" -> <<"c", "l", "s">>
      [] OTHER -> <<n>>

\* ------------------------------------------------------------------------
\* Python values: one record shape for every value a callable can return
\* ------------------------------------------------------------------------
V_int(n) == [kind |-> "int", n |-> n, text |-> <<>>]
V_str(s) == [kind |-> "str", n |-> 0, text |-> s]
\* an instance of a class that is none of dict, list, str, int, float, bool,
\* NoneType; text is its str()
V_object(s) == [kind |-> "object", n |-> 0, text |-> s]
\* no value: the call raised
V_absent == [kind |-> "absent", n |-> 0, text |-> <<>>]

EmptyMap == [k \in {} |-> TRUE]
\* dict.setdefault in place of an assignment: the first value of a key stays
MapPutKeepFirst(m, k, v) == [x \in (DOMAIN m) \cup {k} |-> IF x \in DOMAIN m THEN m[x] ELSE v]
MapPut(m, k, v) == [x \in (DOMAIN m) \cup {k} |-> IF x = k THEN v ELSE m[x]]

\* ------------------------------------------------------------------------
\* The callables of the sample application
\* ------------------------------------------------------------------------
Funcs == {"add", "add2", "fail", "health", "status", "obj", "need", "alias"}

Param(name, ann, hasDefault, default) ==
    [name |-> name, ann |-> ann, hasDefault |-> hasDefault, default |-> default]

\* func.__name__ (add2 is a second function that is also named add)
FuncName(f) ==
    CASE f = "add" -> N_add
      [] f = "add2" -> N_add
      [] f = "fail" -> N_fail
      [] f = "health" -> N_health
      [] f = "status" -> N_status
      [] f = "obj" -> N_obj
      [] f = "need" -> N_need
      [] f = "alias" -> N_alias

\* inspect.signature(func).parameters, in declaration order
Params(f) ==
    CASE f = "add" -> <<Param("a", "int", FALSE, 0), Param("b", "int", TRUE, 10)>>
      [] f = "add2" -> <<Param("a", "empty", FALSE, 0), Param("b", "float", TRUE, 2)>>
      [] f = "need" -> <<Param("a", "int", FALSE, 0)>>
      [] OTHER -> <<>>

\* inspect.iscoroutinefunction(func)
IsCoroutineFunction(f) == f \in {"add2", "health"}

\* func.__doc__ (<<>> is None)
Doc(f) == IF f \in {"health", "status"} THEN T_doc ELSE <<>>

\* getattr(func, "_mcp_meta", None), as attached by mcp_tool / mcp_resource;
\* type "none" is the None of an undecorated function
NoMeta == [type |-> "none", title |-> <<>>, description |-> <<>>, uri_template |-> <<>>, mime_type |-> <<>>]

get_mcp_metadata(f) ==
    CASE f = "add" -> [NoMeta EXCEPT !.type = "tool", !.description = T_sum]
      [] f = "health" -> [NoMeta EXCEPT !.type = "resource", !.uri_template = U_health]
      [] f = "alias" -> [NoMeta EXCEPT !.type = "resource", !.uri_template = N_add]
      [] OTHER -> NoMeta

\* MCPMetadata(type=..., title=..., description=..., uri_template=..., extra=...);
\* of extra the model keeps the mime_type item
MCPMetadata(type, title, description, uri_template, mime_type) ==
    [type |-> type, title |-> title, description |-> description,
     uri_template |-> uri_template, mime_type |-> mime_type]

\* a function object: its identity and its attribute dict
FunctionObject(id, attrs) == [id |-> id, attrs |-> attrs]
\* def f(...): ... with no decorator
PlainFunction == FunctionObject("f", EmptyMap)

\* a decorator built on functools.wraps: it returns a new function object
\* that carries the attributes
mcp_tool_wrapping(title, description, func) ==
    FunctionObject("wrapper", MapPut(func.attrs, "_mcp_meta",
                                     MCPMetadata("tool", title, description, <<>>, <<>>)))

\* mcp_tool(title=title, description=description)(func)
mcp_tool(title, description, func) ==
    [func EXCEPT !.attrs = MapPut(@, "_mcp_meta",
                                  MCPMetadata("tool", title, description, <<>>, <<>>))]

\* mcp_resource(uri_template, title=title, description=description, mime_type=mime_type)(func)
mcp_resource(uri_template, title, description, mime_type, func) ==
    [func EXCEPT !.attrs = MapPut(@, "_mcp_meta",
                                  MCPMetadata("resource", title, description, uri_template,
                                              IF Len(mime_type) > 0 THEN mime_type ELSE <<>>))]

\* is_mcp_endpoint(func): hasattr(func, "_mcp_meta")
is_mcp_endpoint(func) == "_mcp_meta" \in DOMAIN func.attrs

\* get_mcp_metadata(func) of a function object: getattr(func, "_mcp_meta", None)
get_mcp_metadata_attr(func) ==
    IF "_mcp_meta" \in DOMAIN func.attrs THEN func.attrs["_mcp_meta"] ELSE NoMeta

Returned(v) == [raised |-> FALSE, value |-> v, msg |-> <<>>]
Raised(msg) == [raised |-> TRUE, value |-> V_absent, msg |-> msg]

\* func(**arguments): what the callable does with its bound arguments
Body(f, arguments) ==
    CASE f = "add" -> Returned(V_int(arguments["a"] + arguments["b"]))
      [] f = "add2" -> Returned(V_int(arguments["a"] * arguments["b"]))
      [] f = "fail" -> Raised(T_boom)
      [] f = "health" -> Returned(V_str(T_up))
      [] f = "status" -> Returned(V_str(T_ok))
      [] f = "obj" -> Returned(V_object(T_objrepr))
      [] f = "need" -> Returned(V_int(arguments["a"]))
      [] f = "alias" -> Returned(V_str(T_ok))

\* result = await func(**arguments) where the code awaits, result =
\* func(**arguments) where it does not: a coroutine function that is called
\* and not awaited returns a coroutine object, and what a plain function
\* returned cannot be awaited
Invoke(f, arguments, awaits) ==
    CASE IsCoroutineFunction(f) /\ ~awaits -> Returned(V_object(T_coroutine))
      [] ~IsCoroutineFunction(f) /\ awaits ->
            IF Body(f, arguments).raised THEN Body(f, arguments) ELSE Raised(T_not_awaitable)
      [] OTHER -> Body(f, arguments)

\* ------------------------------------------------------------------------
\* The routes of the sample application
\* ------------------------------------------------------------------------
Endpoint(method, func) == [method |-> method, func |-> func]
Route(path, endpoints) == [path |-> path, endpoints |-> endpoints]

\* the Route objects of the sample application, by name
RouteNames == {"add", "a/b", "a_b", "root"}

RouteOf(r) ==
    CASE r = "add" -> Route(P_add, <<Endpoint(M_DELETE, "add"), Endpoint(S_POST, "fail")>>)
      [] r = "a/b" -> Route(P_a_b, <<Endpoint(S_GET, "status"), Endpoint(M_put, "add2")>>)
      [] r = "a_b" -> Route(P_a_b_flat, <<Endpoint(S_POST, "health"), Endpoint(S_GET, "need")>>)
      [] r = "root" -> Route(P_root, <<Endpoint(M_DELETE, "status"), Endpoint(S_GET, "obj"),
                                       Endpoint(M_Patch, "add2")>>)
      [] r = "alias" -> Route(P_alias, <<Endpoint(S_GET, "alias")>>)

\* the applications LihilMCP is constructed over: app.routes, a list of Route
\* objects, one for each path of the application
Apps ==
    { rs \in UNION { [1..n -> RouteNames] : n \in 0..MaxRoutes } :
        \A i \in 1..Len(rs) : \A j \in 1..Len(rs) : rs[i] = rs[j] => i = j }

\* the keys for which the downstream FastMCP tool() / resource() call raises
RejectChoices == { {}, {N_add, U_health} }

\* ------------------------------------------------------------------------
\* Schema inference
\* ------------------------------------------------------------------------
\* type_map.get(param_type, {"type": "object"}): another fallback type
TypeOfFallbackObject(ann) ==
    CASE ann = "str" -> "string"
      [] ann = "int" -> "integer"
      [] ann = "float" -> "number"
      [] ann = "bool" -> "boolean"
      [] ann = "list" -> "array"
      [] ann = "dict" -> "object"
      [] ann = "empty" -> "string"
      [] OTHER -> "object"

\* type_map.get(param_type, {"type": "string"}), after empty -> str
TypeOf(ann) ==
    CASE ann = "str" -> "string"
      [] ann = "int" -> "integer"
      [] ann = "float" -> "number"
      [] ann = "bool" -> "boolean"
      [] ann = "list" -> "array"
      [] ann = "dict" -> "object"
      [] OTHER -> "string"

NoSchema == [present |-> FALSE, type |-> "", properties |-> EmptyMap, required |-> <<>>]

IsVisible(p) == p.name \notin {"self", "cls"}
\* required only when the parameter is annotated as well
IsRequiredWhenAnnotated(p) == IsVisible(p) /\ ~p.hasDefault /\ p.ann # "empty"
IsRequired(p) == IsVisible(p) /\ ~p.hasDefault
\* required.insert(0, param_name) in place of required.append(param_name)
NamesOfReversed(ps) == [i \in 1..Len(ps) |-> ps[Len(ps) + 1 - i].name]
NamesOf(ps) == [i \in 1..Len(ps) |-> ps[i].name]

\* what _generate_input_schema is called with: a callable with the parameters
\* inspect.signature finds, or an object inspect.signature raises TypeError for
Callable(parameters) == [callable |-> TRUE, parameters |-> parameters]
NotCallable == [callable |-> FALSE, parameters |-> <<>>]

\* annotations that are no dict key: type_map.get raises TypeError for them
IsUnhashable(ann) == ann = "unhashable"

\* the try block with an else branch {"type": "object"} for a parameter list
\* that leaves properties empty
schema_of_never_none(arg) ==
    LET visible == SelectSeq(arg.parameters, IsVisible)
        names == { visible[i].name : i \in 1..Len(visible) }
        properties == [n \in names |->
                         TypeOf(visible[CHOOSE i \in 1..Len(visible) : visible[i].name = n].ann)]
        required == NamesOf(SelectSeq(arg.parameters, IsRequired))
    IN  IF ~arg.callable
        THEN NoSchema
        ELSE IF \E i \in 1..Len(visible) : IsUnhashable(visible[i].ann)
        THEN NoSchema
        ELSE [present |-> TRUE, type |-> "object", properties |-> properties, required |-> required]

\* the body of _generate_input_schema: any exception raised inside the try
\* block (by inspect.signature, by type_map.get) makes the result None
schema_of(arg) ==
    LET visible == SelectSeq(arg.parameters, IsVisible)
        names == { visible[i].name : i \in 1..Len(visible) }
        properties == [n \in names |->
                         TypeOf(visible[CHOOSE i \in 1..Len(visible) : visible[i].name = n].ann)]
        required == NamesOf(SelectSeq(arg.parameters, IsRequired))
    IN  IF ~arg.callable
        THEN NoSchema
        ELSE IF \E i \in 1..Len(visible) : IsUnhashable(visible[i].ann)
        THEN NoSchema
        ELSE IF names # {}
        THEN [present |-> TRUE, type |-> "object", properties |-> properties, required |-> required]
        ELSE NoSchema

\* _generate_input_schema(func) for an endpoint function of the sample application
generate_input_schema(f) == schema_of(Callable(Params(f)))

\* ------------------------------------------------------------------------
\* Registration
\* ------------------------------------------------------------------------
MCPToolInfo(name, description, inputSchema) ==
    [name |-> name, description |-> description, inputSchema |-> inputSchema]

MCPResourceInfo(uri, name, description, mimeType) ==
    [uri |-> uri, name |-> name, description |-> description, mimeType |-> mimeType]

\* one downstream registration: the wrapper that FastMCP.tool(name, description)
\* or FastMCP.resource(uri) was handed, with the key the wrapper captured
Wrapper(kind, key, description) == [kind |-> kind, key |-> key, description |-> description]

\* the decorator call self.mcp_server.tool(...) / .resource(...): it raises for
\* the keys the downstream server rejects, and records the wrapper otherwise
InstallDownstream(st, rejects, w) ==
    IF w.key \in rejects
    THEN [st EXCEPT !.raised = TRUE, !.err = T_rejected]
    ELSE [st EXCEPT !.downstream = Append(@, w)]

\* _register_as_tool calling the downstream server before it writes the tables
register_as_tool_downstream_first(st, rejects, route, endpoint, mcp_meta) ==
    LET func == endpoint.func
        func_name == FuncName(func)
        tool_info == MCPToolInfo(func_name,
                                 Or(mcp_meta.description, Or(Doc(func), S_ToolDefault \o func_name)),
                                 generate_input_schema(func))
        st1 == InstallDownstream(st, rejects, Wrapper("tool", func_name, tool_info.description))
    IN  IF st1.raised
        THEN st1
        ELSE [st1 EXCEPT !.tools = MapPut(@, func_name, tool_info),
                         !.endpoint_map = MapPut(@, func_name, endpoint)]

register_as_tool(st, rejects, route, endpoint, mcp_meta) ==
    LET func == endpoint.func
        func_name == FuncName(func)
        tool_info == MCPToolInfo(func_name,
                                 Or(mcp_meta.description, Or(Doc(func), S_ToolDefault \o func_name)),
                                 generate_input_schema(func))
        st1 == [st EXCEPT !.tools = MapPut(@, func_name, tool_info),
                          !.endpoint_map = MapPut(@, func_name, endpoint)]
    IN  InstallDownstream(st1, rejects, Wrapper("tool", func_name, tool_info.description))

\* _register_as_resource keeping the endpoint under the function name
register_as_resource_keyed_by_name(st, rejects, route, endpoint, mcp_meta) ==
    LET func == endpoint.func
        func_name == FuncName(func)
        resource_info == MCPResourceInfo(Or(mcp_meta.uri_template, S_scheme \o func_name),
                                         Or(mcp_meta.title, func_name),
                                         Or(mcp_meta.description, Or(Doc(func), S_ResourceDefault \o func_name)),
                                         IF Len(mcp_meta.mime_type) > 0 THEN mcp_meta.mime_type ELSE S_json)
        st1 == [st EXCEPT !.resources = MapPut(@, resource_info.uri, resource_info),
                          !.endpoint_map = MapPut(@, func_name, endpoint)]
    IN  InstallDownstream(st1, rejects, Wrapper("resource", resource_info.uri, <<>>))

register_as_resource(st, rejects, route, endpoint, mcp_meta) ==
    LET func == endpoint.func
        func_name == FuncName(func)
        resource_info == MCPResourceInfo(Or(mcp_meta.uri_template, S_scheme \o func_name),
                                         Or(mcp_meta.title, func_name),
                                         Or(mcp_meta.description, Or(Doc(func), S_ResourceDefault \o func_name)),
                                         IF Len(mcp_meta.mime_type) > 0 THEN mcp_meta.mime_type ELSE S_json)
        st1 == [st EXCEPT !.resources = MapPut(@, resource_info.uri, resource_info),
                          !.endpoint_map = MapPut(@, resource_info.uri, endpoint)]
    IN  InstallDownstream(st1, rejects, Wrapper("resource", resource_info.uri, <<>>))

\* _auto_register_endpoint comparing endpoint.method as it is, without upper()
auto_register_endpoint_case_sensitive(st, rejects, route, endpoint) ==
    LET func == endpoint.func
        func_name == FuncName(func)
        method == endpoint.method
    IN  IF method \in {S_POST, S_PUT, S_PATCH}
        THEN LET tool_info == MCPToolInfo(func_name,
                                          Or(Doc(func), S_AutoTool \o func_name),
                                          generate_input_schema(func))
                 st1 == [st EXCEPT !.tools = MapPut(@, func_name, tool_info),
                                   !.endpoint_map = MapPut(@, func_name, endpoint)]
             IN  InstallDownstream(st1, rejects, Wrapper("tool", func_name, tool_info.description))
        ELSE IF method = S_GET
        THEN LET resource_uri == S_scheme \o Strip(Replace(route.path, "/", "_"), "_")
                 resource_info == MCPResourceInfo(resource_uri, func_name,
                                                  Or(Doc(func), S_AutoResource \o func_name),
                                                  S_json)
                 st1 == [st EXCEPT !.resources = MapPut(@, resource_uri, resource_info),
                                   !.endpoint_map = MapPut(@, resource_uri, endpoint)]
             IN  InstallDownstream(st1, rejects, Wrapper("resource", resource_uri, <<>>))
        ELSE st

auto_register_endpoint(st, rejects, route, endpoint) ==
    LET func == endpoint.func
        func_name == FuncName(func)
        method == endpoint.method
    IN  IF Upper(method) \in {S_POST, S_PUT, S_PATCH}
        THEN LET tool_info == MCPToolInfo(func_name,
                                          Or(Doc(func), S_AutoTool \o func_name),
                                          generate_input_schema(func))
                 st1 == [st EXCEPT !.tools = MapPut(@, func_name, tool_info),
                                   !.endpoint_map = MapPut(@, func_name, endpoint)]
             IN  InstallDownstream(st1, rejects, Wrapper("tool", func_name, tool_info.description))
        ELSE IF Upper(method) = S_GET
        THEN LET resource_uri == S_scheme \o Strip(Replace(route.path, "/", "_"), "_")
                 resource_info == MCPResourceInfo(resource_uri, func_name,
                                                  Or(Doc(func), S_AutoResource \o func_name),
                                                  S_json)
                 st1 == [st EXCEPT !.resources = MapPut(@, resource_uri, resource_info),
                                   !.endpoint_map = MapPut(@, resource_uri, endpoint)]
             IN  InstallDownstream(st1, rejects, Wrapper("resource", resource_uri, <<>>))
        ELSE st

\* MCPConfig(enabled=..., server_name=..., ...)
MCPConfig(enabled, server_name, expose_docs, auto_expose, auth_required, transport, mcp_path_prefix) ==
    [enabled |-> enabled, server_name |-> server_name, expose_docs |-> expose_docs,
     auto_expose |-> auto_expose, auth_required |-> auth_required, transport |-> transport,
     mcp_path_prefix |-> mcp_path_prefix]

\* _register_endpoint returning at once under a configuration that is not enabled
register_endpoint_when_enabled(st, rejects, config, route, endpoint) ==
    LET func == endpoint.func
        mcp_meta == get_mcp_metadata(func)
    IN  IF ~config.enabled
        THEN st
        ELSE IF mcp_meta.type # "none"
        THEN IF mcp_meta.type = "tool"
             THEN register_as_tool(st, rejects, route, endpoint, mcp_meta)
             ELSE IF mcp_meta.type = "resource"
             THEN register_as_resource(st, rejects, route, endpoint, mcp_meta)
             ELSE st
        ELSE IF config.auto_expose
        THEN auto_register_endpoint(st, rejects, route, endpoint)
        ELSE st

\* _register_endpoint with "if self.config.auto_expose" in place of "elif": a
\* tagged endpoint is classified by its verb as well
register_endpoint_tagged_also_auto(st, rejects, config, route, endpoint) ==
    LET func == endpoint.func
        mcp_meta == get_mcp_metadata(func)
        st1 == IF mcp_meta.type = "tool"
               THEN register_as_tool(st, rejects, route, endpoint, mcp_meta)
               ELSE IF mcp_meta.type = "resource"
               THEN register_as_resource(st, rejects, route, endpoint, mcp_meta)
               ELSE st
    IN  IF config.auto_expose /\ ~st1.raised
        THEN auto_register_endpoint(st1, rejects, route, endpoint)
        ELSE st1

register_endpoint(st, rejects, config, route, endpoint) ==
    LET func == endpoint.func
        mcp_meta == get_mcp_metadata(func)
    IN  IF mcp_meta.type # "none"
        THEN IF mcp_meta.type = "tool"
             THEN register_as_tool(st, rejects, route, endpoint, mcp_meta)
             ELSE IF mcp_meta.type = "resource"
             THEN register_as_resource(st, rejects, route, endpoint, mcp_meta)
             ELSE st
        ELSE IF config.auto_expose
        THEN auto_register_endpoint(st, rejects, route, endpoint)
        ELSE st

\* for route in self.app.routes: for _, endpoint in route.endpoints.items():
\* the (route, endpoint) pairs in iteration order
RECURSIVE IterationOrder(_)
IterationOrder(routes) ==
    IF Len(routes) = 0
    THEN <<>>
    ELSE [i \in 1..Len(RouteOf(routes[1]).endpoints) |->
             [route |-> RouteOf(routes[1]), endpoint |-> RouteOf(routes[1]).endpoints[i]]]
         \o IterationOrder(SubSeq(routes, 2, Len(routes)))

\* the loop of _setup_mcp_endpoints with the raise moved behind the loop: the
\* endpoints after the failing one are registered too
RECURSIVE SetupLoopRaisingLate(_, _, _, _, _)
SetupLoopRaisingLate(st, rejects, config, items, i) ==
    IF i > Len(items)
    THEN IF st.raised THEN st ELSE [st EXCEPT !.complete = TRUE]
    ELSE LET st1 == register_endpoint([st EXCEPT !.raised = FALSE], rejects, config,
                                      items[i].route, items[i].endpoint)
         IN  IF st.raised
             THEN SetupLoopRaisingLate([st1 EXCEPT !.raised = TRUE, !.err = st.err],
                                       rejects, config, items, i + 1)
             ELSE IF st1.raised
             THEN SetupLoopRaisingLate(
                      [st1 EXCEPT !.err = S_FailedRegister \o FuncName(items[i].endpoint.func)
                                             \o S_colon \o st1.err],
                      rejects, config, items, i + 1)
             ELSE SetupLoopRaisingLate(st1, rejects, config, items, i + 1)

\* the body of the loop of _setup_mcp_endpoints from the i-th pair on: the
\* first registration that raises ends the loop with MCPRegistrationError
RECURSIVE SetupLoop(_, _, _, _, _)
SetupLoop(st, rejects, config, items, i) ==
    IF i > Len(items)
    THEN [st EXCEPT !.complete = TRUE]
    ELSE LET st1 == register_endpoint(st, rejects, config, items[i].route, items[i].endpoint)
         IN  IF st1.raised
             THEN [st1 EXCEPT !.err = S_FailedRegister \o FuncName(items[i].endpoint.func)
                                        \o S_colon \o st1.err]
             ELSE SetupLoop(st1, rejects, config, items, i + 1)

\* _setup_mcp_endpoints without the test of the flag
setup_mcp_endpoints_unguarded(st, rejects, config, routes) ==
    SetupLoop([st EXCEPT !.read = TRUE], rejects, config, IterationOrder(routes), 1)

\* _setup_mcp_endpoints; read tells whether the call got to self.app.routes
setup_mcp_endpoints(st, rejects, config, routes) ==
    IF st.complete
    THEN st
    ELSE SetupLoop([st EXCEPT !.read = TRUE], rejects, config, IterationOrder(routes), 1)

\* ------------------------------------------------------------------------
\* Dispatch
\* ------------------------------------------------------------------------
EmptyKwargs == [n \in {} |-> 0]

\* Bind without the check for keys that are no parameter
BindIgnoringUnknownKeys(params, kwargs) ==
    LET names == { params[i].name : i \in 1..Len(params) }
        missing == { i \in 1..Len(params) : ~params[i].hasDefault /\ params[i].name \notin DOMAIN kwargs }
        first == CHOOSE i \in missing : \A j \in missing : i <= j
        arguments == [n \in names |->
                        IF n \in DOMAIN kwargs
                        THEN kwargs[n]
                        ELSE params[CHOOSE i \in 1..Len(params) : params[i].name = n].default]
    IN  IF missing # {}
        THEN { [ok |-> FALSE, arguments |-> EmptyKwargs,
                msg |-> S_MissingArg \o NameText(params[first].name) \o S_quote] }
        ELSE { [ok |-> TRUE, arguments |-> arguments, msg |-> <<>>] }

\* Bind whose apply_defaults overwrites a supplied optional argument
BindDefaultsOverwrite(params, kwargs) ==
    LET names == { params[i].name : i \in 1..Len(params) }
        missing == { i \in 1..Len(params) : ~params[i].hasDefault /\ params[i].name \notin DOMAIN kwargs }
        extra == (DOMAIN kwargs) \ names
        first == CHOOSE i \in missing : \A j \in missing : i <= j
        arguments == [n \in names |->
                        LET p == params[CHOOSE i \in 1..Len(params) : params[i].name = n]
                        IN  IF p.hasDefault THEN p.default ELSE kwargs[n]]
    IN  IF missing # {}
        THEN { [ok |-> FALSE, arguments |-> EmptyKwargs,
                msg |-> S_MissingArg \o NameText(params[first].name) \o S_quote] }
        ELSE IF extra # {}
        THEN { [ok |-> FALSE, arguments |-> EmptyKwargs,
                msg |-> S_UnexpectedArg \o NameText(k) \o S_quote] : k \in extra }
        ELSE { [ok |-> TRUE, arguments |-> arguments, msg |-> <<>>] }

\* inspect.Signature.bind(**kwargs) followed by apply_defaults(): the possible
\* results.  The first parameter without a default that kwargs does not give
\* fails the bind; otherwise a key that is no parameter fails it, and the
\* message names the first such key of the dict, whichever that is.
Bind(params, kwargs) ==
    LET names == { params[i].name : i \in 1..Len(params) }
        missing == { i \in 1..Len(params) : ~params[i].hasDefault /\ params[i].name \notin DOMAIN kwargs }
        extra == (DOMAIN kwargs) \ names
        first == CHOOSE i \in missing : \A j \in missing : i <= j
        arguments == [n \in names |->
                        IF n \in DOMAIN kwargs
                        THEN kwargs[n]
                        ELSE params[CHOOSE i \in 1..Len(params) : params[i].name = n].default]
    IN  IF missing # {}
        THEN { [ok |-> FALSE, arguments |-> EmptyKwargs,
                msg |-> S_MissingArg \o NameText(params[first].name) \o S_quote] }
        ELSE IF extra # {}
        THEN { [ok |-> FALSE, arguments |-> EmptyKwargs,
                msg |-> S_UnexpectedArg \o NameText(k) \o S_quote] : k \in extra }
        ELSE { [ok |-> TRUE, arguments |-> arguments, msg |-> <<>>] }

\* isinstance(result, (dict, list, str, int, float, bool, NoneType)) or
\* json.loads(json.dumps(result, default=str))
\* the result returned as it is, whatever it is
CoerceSkipped(v) == v
Coerce(v) == IF v.kind = "object" THEN V_str(v.text) ELSE v

Outcome(outcome, value, message, calls) ==
    [outcome |-> outcome, value |-> value, message |-> message, calls |-> calls]

Invocation(func, arguments) == [func |-> func, arguments |-> arguments]

\* _call_endpoint with the lookup inside the try block: a lookup failure is
\* wrapped like an invocation failure
call_endpoint_lookup_in_try(emap, tool_name, kwargs) ==
    IF tool_name \notin DOMAIN emap
    THEN { Outcome("MCPError", V_absent,
                   S_ErrCalling \o tool_name \o S_colon \o S_Tool \o tool_name \o S_not_found, <<>>) }
    ELSE LET func == emap[tool_name].func
         IN  { IF ~b.ok
               THEN Outcome("MCPError", V_absent,
                            S_ErrCalling \o tool_name \o S_colon \o b.msg, <<>>)
               ELSE LET r == Invoke(func, b.arguments, IsCoroutineFunction(func))
                        calls == <<Invocation(func, b.arguments)>>
                    IN  IF r.raised
                        THEN Outcome("MCPError", V_absent,
                                     S_ErrCalling \o tool_name \o S_colon \o r.msg, calls)
                        ELSE Outcome("ok", Coerce(r.value), <<>>, calls)
               : b \in Bind(Params(func), kwargs) }

\* _call_endpoint whose except clause covers the bind only: what the callable
\* raises leaves the dispatcher as it is
call_endpoint_callable_unguarded(emap, tool_name, kwargs) ==
    IF tool_name \notin DOMAIN emap
    THEN { Outcome("MCPError", V_absent, S_Tool \o tool_name \o S_not_found, <<>>) }
    ELSE LET func == emap[tool_name].func
         IN  { IF ~b.ok
               THEN Outcome("MCPError", V_absent,
                            S_ErrCalling \o tool_name \o S_colon \o b.msg, <<>>)
               ELSE LET r == Invoke(func, b.arguments, IsCoroutineFunction(func))
                        calls == <<Invocation(func, b.arguments)>>
                    IN  IF r.raised
                        THEN Outcome("ValueError", V_absent, r.msg, calls)
                        ELSE Outcome("ok", Coerce(r.value), <<>>, calls)
               : b \in Bind(Params(func), kwargs) }

\* the possible outcomes of await self._call_endpoint(tool_name, kwargs)
call_endpoint(emap, tool_name, kwargs) ==
    IF tool_name \notin DOMAIN emap
    THEN { Outcome("MCPError", V_absent, S_Tool \o tool_name \o S_not_found, <<>>) }
    ELSE LET func == emap[tool_name].func
         IN  { IF ~b.ok
               THEN Outcome("MCPError", V_absent,
                            S_ErrCalling \o tool_name \o S_colon \o b.msg, <<>>)
               ELSE LET r == Invoke(func, b.arguments, IsCoroutineFunction(func))
                        calls == <<Invocation(func, b.arguments)>>
                    IN  IF r.raised
                        THEN Outcome("MCPError", V_absent,
                                     S_ErrCalling \o tool_name \o S_colon \o r.msg, calls)
                        ELSE Outcome("ok", Coerce(r.value), <<>>, calls)
               : b \in Bind(Params(func), kwargs) }

\* func() / await func(): Python's own argument check, for functions with at
\* most one parameter without a default, and then the call
CallNoArgs(func) ==
    LET missing == { i \in 1..Len(Params(func)) : ~Params(func)[i].hasDefault }
        first == CHOOSE i \in missing : \A j \in missing : i <= j
        defaults == [n \in { Params(func)[i].name : i \in 1..Len(Params(func)) } |->
                       Params(func)[CHOOSE i \in 1..Len(Params(func)) : Params(func)[i].name = n].default]
    IN  IF missing # {}
        THEN [called |-> FALSE,
              r |-> Raised(FuncName(func) \o S_MissingPositional
                           \o NameText(Params(func)[first].name) \o S_quote)]
        ELSE [called |-> TRUE, r |-> Invoke(func, defaults, IsCoroutineFunction(func))]

\* _call_endpoint_as_resource written as _call_endpoint(uri, {})
call_endpoint_as_resource_via_tool(emap, uri) ==
    CHOOSE o \in call_endpoint(emap, uri, EmptyKwargs) : TRUE

\* _call_endpoint_as_resource answering not-found for an endpoint tagged as a tool
call_endpoint_as_resource_checking_kind(emap, uri) ==
    IF uri \notin DOMAIN emap
    THEN Outcome("MCPError", V_absent, S_Resource \o uri \o S_not_found, <<>>)
    ELSE IF get_mcp_metadata(emap[uri].func).type = "tool"
    THEN Outcome("MCPError", V_absent, S_Resource \o uri \o S_not_found, <<>>)
    ELSE LET func == emap[uri].func
             c == CallNoArgs(func)
             calls == IF c.called THEN <<Invocation(func, EmptyKwargs)>> ELSE <<>>
         IN  IF c.r.raised
             THEN Outcome("MCPError", V_absent,
                          S_ErrAccessing \o uri \o S_colon \o c.r.msg, calls)
             ELSE Outcome("ok", Coerce(c.r.value), <<>>, calls)

\* the outcome of await self._call_endpoint_as_resource(uri)
call_endpoint_as_resource(emap, uri) ==
    IF uri \notin DOMAIN emap
    THEN Outcome("MCPError", V_absent, S_Resource \o uri \o S_not_found, <<>>)
    ELSE LET func == emap[uri].func
             c == CallNoArgs(func)
             calls == IF c.called THEN <<Invocation(func, EmptyKwargs)>> ELSE <<>>
         IN  IF c.r.raised
             THEN Outcome("MCPError", V_absent,
                          S_ErrAccessing \o uri \o S_colon \o c.r.msg, calls)
             ELSE Outcome("ok", Coerce(c.r.value), <<>>, calls)

\* the forwarding wrappers handed to the downstream server: each calls the
\* dispatcher with the key it captured
\* a tool wrapper declared without **kwargs forwarding: the dispatcher gets {}
mcp_tool_wrapper_dropping_kwargs(emap, w, kwargs) == call_endpoint(emap, w.key, EmptyKwargs)
mcp_tool_wrapper(emap, w, kwargs) == call_endpoint(emap, w.key, kwargs)

mcp_resource_wrapper(emap, w) == call_endpoint_as_resource(emap, w.key)

\* ------------------------------------------------------------------------
\* The transport: LihilMCPTransport and MCPMiddleware of
\* src/lihil_mcp/transport.py
\* ------------------------------------------------------------------------
\* an ASGI scope: what the code reads of it
Scope(type, path, headers) == [type |-> type, path |-> path, headers |-> headers]

\* the arguments of one ASGI call
Request(scope, receive, send) == [scope |-> scope, receive |-> receive, send |-> send]
NoRequest == Request(Scope("", <<>>, <<>>), "", "")

\* one call of a downstream ASGI handler with its arguments
HandlerCall(handler, scope, receive, send) ==
    [handler |-> handler, scope |-> scope, receive |-> receive, send |-> send]

S_content_type == <<"c", "o", "n", "t", "e", "n", "t", "-", "t", "y", "p", "e">>
S_jsonrpc == <<"j", "s", "o", "n", "r", "p", "c">>
S_bytes_open == <<"b", "'">>
S_bytes_close == <<"'">>
S_item_sep == <<",", " ">>
S_dict_open == <<"{">>
S_dict_close == <<"}">>

\* str.startswith
StartsWith(s, prefix) == Len(prefix) <= Len(s) /\ SubSeq(s, 1, Len(prefix)) = prefix

\* dict(pairs) of a list of (name, value) pairs: the names in the order of
\* their first occurrence, each with the value of its last
RECURSIVE DictOf(_)
DictOf(pairs) ==
    IF pairs = <<>>
    THEN <<>>
    ELSE LET d == DictOf(SubSeq(pairs, 1, Len(pairs) - 1))
             p == pairs[Len(pairs)]
         IN  IF \E i \in 1..Len(d) : d[i].name = p.name
             THEN [i \in 1..Len(d) |-> IF d[i].name = p.name THEN p ELSE d[i]]
             ELSE Append(d, p)

\* dict.get(name, default)
DictGet(d, name, default) ==
    IF \E i \in 1..Len(d) : d[i].name = name
    THEN d[CHOOSE i \in 1..Len(d) : d[i].name = name].value
    ELSE default

\* repr() of a bytes object made of printable ASCII other than ' and \
BytesRepr(b) == S_bytes_open \o b \o S_bytes_close

\* str() of a dict of bytes to bytes
RECURSIVE StrOfItems(_)
StrOfItems(d) ==
    IF d = <<>>
    THEN <<>>
    ELSE LET item == BytesRepr(d[1].name) \o S_colon \o BytesRepr(d[1].value)
             rest == SubSeq(d, 2, Len(d))
         IN  IF rest = <<>> THEN item ELSE item \o S_item_sep \o StrOfItems(rest)

StrOfDict(d) == S_dict_open \o StrOfItems(d) \o S_dict_close

\* _is_mcp_request without the test of the scope type
is_mcp_request_any_type(prefix, scope) ==
    IF StartsWith(scope.path, prefix)
    THEN TRUE
    ELSE LET headers == DictOf(scope.headers)
             content_type == DictGet(headers, S_content_type, <<>>)
         IN  Contains(content_type, S_json) /\ Contains(StrOfDict(headers), S_jsonrpc)

\* _is_mcp_request taking a JSON content type alone for protocol traffic
is_mcp_request_json_alone(prefix, scope) ==
    IF scope.type # "http"
    THEN FALSE
    ELSE IF StartsWith(scope.path, prefix)
    THEN TRUE
    ELSE LET headers == DictOf(scope.headers)
             content_type == DictGet(headers, S_content_type, <<>>)
         IN  Contains(content_type, S_json)

\* LihilMCPTransport._is_mcp_request; a scope without "type" has type "", one
\* without "path" has path "" and one without "headers" has headers []
is_mcp_request(prefix, scope) ==
    IF scope.type # "http"
    THEN FALSE
    ELSE IF StartsWith(scope.path, prefix)
    THEN TRUE
    ELSE LET headers == DictOf(scope.headers)
             content_type == DictGet(headers, S_content_type, <<>>)
         IN  Contains(content_type, S_json) /\ Contains(StrOfDict(headers), S_jsonrpc)

\* LihilMCPTransport.__call__ handing protocol traffic to the transport and
\* then to the application as well
transport_call_both(prefix, request) ==
    IF is_mcp_request(prefix, request.scope)
    THEN <<HandlerCall("transport", request.scope, request.receive, request.send),
           HandlerCall("app", request.scope, request.receive, request.send)>>
    ELSE <<HandlerCall("app", request.scope, request.receive, request.send)>>

\* LihilMCPTransport.__call__: the calls of downstream handlers it makes, where
\* "transport" is self.transport and "app" is self.mcp_server.app
transport_call(prefix, request) ==
    IF is_mcp_request(prefix, request.scope)
    THEN <<HandlerCall("transport", request.scope, request.receive, request.send)>>
    ELSE <<HandlerCall("app", request.scope, request.receive, request.send)>>

\* MCPMiddleware.__call__: it awaits self.mcp_transport(scope, receive, send);
\* "middleware_app" would be its own self.app
middleware_call(prefix, request) == transport_call(prefix, request)

\* header pairs and header lists of the requests
Header(name, value) == [name |-> name, value |-> value]
H_json == Header(S_content_type, S_json)
H_plain == Header(S_content_type, <<"t", "e", "x", "t", "/", "p", "l", "a", "i", "n">>)
H_json_rpc == Header(S_content_type, <<"a", "p", "p", "l", "i", "c", "a", "t", "i", "o", "n", "/", "j", "s", "o", "n", ";", " ", "j", "s", "o", "n", "r", "p", "c", "=", "2", ".", "0">>)
H_x_jsonrpc == Header(<<"x", "-", "j", "s", "o", "n", "r", "p", "c">>, <<"1">>)
H_custom == Header(<<"x">>, S_jsonrpc)
H_upper_json == Header(<<"C", "o", "n", "t", "e", "n", "t", "-", "T", "y", "p", "e">>, <<"A", "P", "P", "L", "I", "C", "A", "T", "I", "O", "N", "/", "J", "S", "O", "N">>)
H_upper_jsonrpc == Header(<<"X", "-", "J", "S", "O", "N", "R", "P", "C">>, <<"1">>)
H_split == Header(<<"j", "s", "o", "n">>, <<"r", "p", "c">>)

HeaderLists ==
    { <<>>,
      <<H_json>>, <<H_plain>>, <<H_json_rpc>>, <<H_x_jsonrpc>>, <<H_custom>>,
      <<H_json, H_custom>>, <<H_json, H_x_jsonrpc>>, <<H_plain, H_custom>>,
      <<H_upper_json, H_upper_jsonrpc>>, <<H_upper_json, H_custom>>, <<H_json, H_upper_jsonrpc>>,
      <<H_json, H_split>>,
      <<H_json, H_custom, H_plain>>, <<H_plain, H_custom, H_json>>,
      <<H_json, H_custom, Header(<<"x">>, <<"1">>)>> }

Paths == { <<"/", "m", "c", "p", "/", "t">>, <<"/", "m", "c">>, <<"/", "M", "C", "P", "/", "t">>, <<"/", "c">>, <<>> }
ScopeTypes == { "http", "websocket", "" }
Prefixes == { S_mcp, <<"/", "c">> }

Requests ==
    { Request(Scope(type, path, headers), "receive", "send") :
        type \in ScopeTypes, path \in Paths, headers \in HeaderLists }

\* ------------------------------------------------------------------------
\* Inputs of the dispatcher
\* ------------------------------------------------------------------------
\* every key some application of Apps can register, and one that none can
DispatchKeys ==
    { N_add, N_fail, U_health, S_scheme, N_nonexistent }

ArgValues(n) == IF n = "a" THEN {3} ELSE {7}

\* the kwargs of a tool call: a dict over some of the names a, b
KwargsSets ==
    UNION { { k \in [S -> {3, 7}] : \A n \in S : k[n] \in ArgValues(n) } : S \in SUBSET {"a", "b"} }

\* ------------------------------------------------------------------------
\* State
\* ------------------------------------------------------------------------
VARIABLES
    routes,              \* self.app.routes
    auto_expose,         \* self.config.auto_expose
    rejects,             \* keys the downstream server refuses to register
    tools,               \* self._tools
    resources,           \* self._resources
    endpoint_map,        \* self._endpoint_map
    mcp_setup_complete,  \* self._mcp_setup_complete
    downstream,          \* the wrappers installed in self.mcp_server, in order
    setup_calls,         \* number of calls of _setup_mcp_endpoints that entered the loop
    lifespan,            \* "idle", or while __call__ awaits self.app on a lifespan scope:
                         \* "in_app", then "started" once the application has completed its startup
    mcp_path_prefix,     \* self.config.mcp_path_prefix, copied by LihilMCPTransport.__init__
    config,              \* the other fields of self.config
    twin,                \* a second LihilMCP over the same application, configured otherwise
    last                 \* the latest call on the instance and its outcome

vars == <<routes, auto_expose, rejects, tools, resources, endpoint_map,
          mcp_setup_complete, downstream, setup_calls, lifespan, mcp_path_prefix, config, twin, last>>

\* a function object under decoration: the object the name is bound to, the
\* decorator arguments applied to it so far, and what the last inspection returned
Decoration(func, applied, metadata, is_endpoint) ==
    [func |-> func, applied |-> applied, metadata |-> metadata, is_endpoint |-> is_endpoint]
NoDecoration == Decoration(PlainFunction, <<>>, NoMeta, FALSE)

\* a dict a caller holds: the dict object it is, and its items
Mapping(object, entries) == [object |-> object, entries |-> entries]
NoMapping == Mapping("", EmptyMap)

Call(op, key, kwargs, o, view, app_calls) ==
    [op |-> op, key |-> key, kwargs |-> kwargs, outcome |-> o.outcome, value |-> o.value,
     message |-> o.message, calls |-> o.calls, view |-> view, app_calls |-> app_calls,
     request |-> NoRequest, forwarded |-> <<>>, argument |-> NotCallable, schema |-> NoSchema,
     returned |-> NoMapping, decoration |-> NoDecoration]

Done == Outcome("ok", V_absent, <<>>, <<>>)

S_server_name == <<"l", "i", "h", "i", "l", "-", "m", "c", "p", "-", "s", "e", "r", "v", "e", "r">>

\* the fields of an MCPConfig that have no variable of their own
ConfigFields(enabled, server_name, expose_docs, auth_required, transport) ==
    [enabled |-> enabled, server_name |-> server_name, expose_docs |-> expose_docs,
     auth_required |-> auth_required, transport |-> transport]

\* MCPConfig(): the defaults of the class
DefaultFields == ConfigFields(FALSE, S_server_name, TRUE, FALSE, "asgi")

\* self.config
SelfConfig ==
    MCPConfig(config.enabled, config.server_name, config.expose_docs, auto_expose,
              config.auth_required, config.transport, mcp_path_prefix)

\* a LihilMCP that was just constructed with the configuration c, and the
\* outcomes its latest call can have
Twin(c) ==
    [config |-> c, tools |-> EmptyMap, resources |-> EmptyMap, endpoint_map |-> EmptyMap,
     complete |-> FALSE, downstream |-> <<>>, outcomes |-> {}]
NoTwin == Twin(MCPConfig(FALSE, S_server_name, TRUE, TRUE, FALSE, "asgi", S_mcp))

\* what the awaited handler does
AwaitedHandler == { "returns", "raises" }
AsgiOutcome(behaviour) ==
    IF behaviour = "returns" THEN Done ELSE Outcome("HandlerError", V_absent, T_boom, <<>>)

AppCalls(forwarded) == Cardinality({ i \in 1..Len(forwarded) : forwarded[i].handler = "app" })

AsgiCallRecord(op, request, behaviour, forwarded) ==
    [Call(op, request.scope.path, EmptyKwargs, AsgiOutcome(behaviour), {}, AppCalls(forwarded))
        EXCEPT !.request = request, !.forwarded = forwarded]

\* LihilMCP.__init__
Init ==
    /\ routes \in Apps
    /\ auto_expose \in BOOLEAN
    /\ rejects \in RejectChoices
    /\ tools = EmptyMap
    /\ resources = EmptyMap
    /\ endpoint_map = EmptyMap
    /\ mcp_setup_complete = FALSE
    /\ downstream = <<>>
    /\ setup_calls = 0
    /\ lifespan = "idle"
    /\ mcp_path_prefix = S_mcp
    /\ config = DefaultFields
    /\ twin = NoTwin
    /\ last = Call("init", <<>>, EmptyKwargs, Done, {}, 0)

Registry ==
    [tools |-> tools, resources |-> resources, endpoint_map |-> endpoint_map,
     downstream |-> downstream, complete |-> mcp_setup_complete, raised |-> FALSE, err |-> <<>>,
     read |-> FALSE]

\* self._setup_mcp_endpoints(), called under the name op
RunSetup(op, app_calls) ==
    LET r == setup_mcp_endpoints(Registry, rejects, SelfConfig, routes)
    IN  /\ tools' = r.tools
        /\ resources' = r.resources
        /\ endpoint_map' = r.endpoint_map
        /\ downstream' = r.downstream
        /\ mcp_setup_complete' = r.complete
        /\ setup_calls' = IF mcp_setup_complete THEN setup_calls ELSE setup_calls + 1
        /\ last' = Call(op, <<>>, EmptyKwargs,
                        IF r.raised
                        THEN Outcome("MCPRegistrationError", V_absent, r.err, <<>>)
                        ELSE Done,
                        IF r.read THEN DOMAIN routes ELSE {}, app_calls)

\* LihilMCP.setup_mcp_tools_and_resources
SetupMcpToolsAndResources ==
    /\ mcp_setup_complete \/ setup_calls < MaxSetupCalls
    /\ RunSetup("setup", 0)
    /\ UNCHANGED <<mcp_path_prefix, config, twin, routes, auto_expose, rejects, lifespan>>

\* LihilMCP.__call__ on a lifespan scope, up to the await of self.app
LifespanCall ==
    /\ lifespan = "idle"
    /\ lifespan' = "in_app"
    /\ UNCHANGED <<mcp_path_prefix, config, twin, routes, auto_expose, rejects, tools, resources, endpoint_map,
                   mcp_setup_complete, downstream, setup_calls, last>>

\* ... the awaited self.app(scope, receive, send) returns, after the shutdown
\* event or without taking part in the lifespan protocol: setup runs
LifespanAppReturn ==
    /\ lifespan \in {"in_app", "started"}
    /\ mcp_setup_complete \/ setup_calls < MaxSetupCalls
    /\ lifespan' = "idle"
    /\ RunSetup("lifespan", 1)
    /\ UNCHANGED <<mcp_path_prefix, config, twin, routes, auto_expose, rejects>>

\* ... the awaited self.app(scope, receive, send) raises: the exception leaves __call__
LifespanAppRaise ==
    /\ lifespan \in {"in_app", "started"}
    /\ lifespan' = "idle"
    /\ last' = Call("lifespan", <<>>, EmptyKwargs, Outcome("AppError", V_absent, <<>>, <<>>), {}, 1)
    /\ UNCHANGED <<mcp_path_prefix, config, twin, routes, auto_expose, rejects, tools, resources, endpoint_map,
                   mcp_setup_complete, downstream, setup_calls>>

\* the scopes of the ASGI calls of LihilMCP that are no lifespan scope
AsgiRequests ==
    { Request(Scope("http", <<"/", "m", "c", "p", "/", "t">>, <<H_json, H_custom>>), "receive", "send"),
      Request(Scope("http", P_a_b, <<>>), "receive", "send"),
      Request(Scope("websocket", <<"/", "m", "c", "p", "/", "t">>, <<>>), "receive", "send") }

\* __call__ routing like LihilMCPTransport: protocol traffic goes to the transport
asgi_call_routing_protocol(request) == transport_call(mcp_path_prefix, request)

\* LihilMCP.__call__ on a scope that is no lifespan scope: the handler calls it makes
asgi_call(request) ==
    <<HandlerCall("app", request.scope, request.receive, request.send)>>

\* LihilMCP.__call__ on any other scope
AsgiCall ==
    /\ \E request \in AsgiRequests, behaviour \in AwaitedHandler :
          last' = AsgiCallRecord("asgi", request, behaviour, asgi_call(request))
    /\ UNCHANGED <<mcp_path_prefix, config, twin, routes, auto_expose, rejects, tools, resources, endpoint_map,
                   mcp_setup_complete, downstream, setup_calls, lifespan>>

\* LihilMCP._call_endpoint
CallEndpoint ==
    /\ \E tool_name \in DispatchKeys, kwargs \in KwargsSets :
          \E o \in call_endpoint(endpoint_map, tool_name, kwargs) :
              last' = Call("call_endpoint", tool_name, kwargs, o, {}, 0)
    /\ UNCHANGED <<mcp_path_prefix, config, twin, routes, auto_expose, rejects, tools, resources, endpoint_map,
                   mcp_setup_complete, downstream, setup_calls, lifespan>>

\* _call_endpoint_as_resource taking the endpoint out of the map with pop()
CallEndpointAsResourcePopping ==
    /\ \E uri \in DispatchKeys :
          /\ last' = Call("call_endpoint_as_resource", uri, EmptyKwargs,
                          call_endpoint_as_resource(endpoint_map, uri), {}, 0)
          /\ endpoint_map' = [k \in (DOMAIN endpoint_map) \ {uri} |-> endpoint_map[k]]
    /\ UNCHANGED <<mcp_path_prefix, config, twin, routes, auto_expose, rejects, tools, resources,
                   mcp_setup_complete, downstream, setup_calls, lifespan>>

\* LihilMCP._call_endpoint_as_resource
CallEndpointAsResource ==
    /\ \E uri \in DispatchKeys :
          last' = Call("call_endpoint_as_resource", uri, EmptyKwargs,
                       call_endpoint_as_resource(endpoint_map, uri), {}, 0)
    /\ UNCHANGED <<mcp_path_prefix, config, twin, routes, auto_expose, rejects, tools, resources, endpoint_map,
                   mcp_setup_complete, downstream, setup_calls, lifespan>>

\* the downstream server calls a tool wrapper it was handed: mcp_tool_wrapper
\* of _register_as_tool, mcp_auto_tool_wrapper of _auto_register_endpoint
ToolWrapperCall ==
    /\ \E i \in DOMAIN downstream, kwargs \in KwargsSets :
          /\ downstream[i].kind = "tool"
          /\ \E o \in mcp_tool_wrapper(endpoint_map, downstream[i], kwargs) :
                last' = Call("tool_wrapper", downstream[i].key, kwargs, o, {i}, 0)
    /\ UNCHANGED <<mcp_path_prefix, config, twin, routes, auto_expose, rejects, tools, resources, endpoint_map,
                   mcp_setup_complete, downstream, setup_calls, lifespan>>

\* the downstream server calls a resource wrapper it was handed:
\* mcp_resource_wrapper of _register_as_resource, mcp_auto_resource_wrapper
\* of _auto_register_endpoint
ResourceWrapperCall ==
    /\ \E i \in DOMAIN downstream :
          /\ downstream[i].kind = "resource"
          /\ last' = Call("resource_wrapper", downstream[i].key, EmptyKwargs,
                          mcp_resource_wrapper(endpoint_map, downstream[i]), {i}, 0)
    /\ UNCHANGED <<mcp_path_prefix, config, twin, routes, auto_expose, rejects, tools, resources, endpoint_map,
                   mcp_setup_complete, downstream, setup_calls, lifespan>>

\* the property with "return self._tools": the caller is handed the table itself
tools_property_uncopied(table) == Mapping("_tools", table)
\* LihilMCP.tools: dict.copy() makes a new dict object with the same items
tools_property(table) == Mapping("fresh", table)

\* LihilMCP.resources
resources_property(table) == Mapping("fresh", table)

\* LihilMCP.tools
ReadTools ==
    /\ last' = [Call("tools", <<>>, EmptyKwargs, Done, DOMAIN tools, 0)
                   EXCEPT !.returned = tools_property(tools)]
    /\ UNCHANGED <<mcp_path_prefix, config, twin, routes, auto_expose, rejects, tools, resources, endpoint_map,
                   mcp_setup_complete, downstream, setup_calls, lifespan>>

\* LihilMCP.resources
ReadResources ==
    /\ last' = [Call("resources", <<>>, EmptyKwargs, Done, DOMAIN resources, 0)
                   EXCEPT !.returned = resources_property(resources)]
    /\ UNCHANGED <<mcp_path_prefix, config, twin, routes, auto_expose, rejects, tools, resources, endpoint_map,
                   mcp_setup_complete, downstream, setup_calls, lifespan>>

\* an entry that is in no table
ForeignEntry(op) ==
    IF op = "tools"
    THEN MCPToolInfo(N_nonexistent, T_doc, NoSchema)
    ELSE MCPResourceInfo(N_nonexistent, N_nonexistent, T_doc, S_json)

\* what one statement of the caller makes of a dict: del d[k], d[new] = entry, d[k] = entry
Writes(d, entry) ==
    { [k \in (DOMAIN d) \ {x} |-> d[k]] : x \in DOMAIN d }
        \cup { MapPut(d, N_nonexistent, entry) }
        \cup { MapPut(d, x, entry) : x \in DOMAIN d }

\* the caller writes to the mapping a property has just handed it; a write
\* to a dict object changes that object, whoever else holds it
WriteReturned ==
    /\ last.op \in {"tools", "resources"}
    /\ \E m \in Writes(last.returned.entries, ForeignEntry(last.op)) :
          /\ last' = [last EXCEPT !.op = IF last.op = "tools" THEN "write_tools" ELSE "write_resources",
                                  !.returned.entries = m]
          /\ tools' = IF last.returned.object = "_tools" THEN m ELSE tools
          /\ resources' = IF last.returned.object = "_resources" THEN m ELSE resources
    /\ UNCHANGED <<mcp_path_prefix, config, twin, routes, auto_expose, rejects, endpoint_map,
                   mcp_setup_complete, downstream, setup_calls, lifespan>>

Next ==
    \/ SetupMcpToolsAndResources
    \/ LifespanCall
    \/ LifespanAppReturn
    \/ LifespanAppRaise
    \/ AsgiCall
    \/ CallEndpoint
    \/ CallEndpointAsResource
    \/ ToolWrapperCall
    \/ ResourceWrapperCall
    \/ ReadTools
    \/ ReadResources
    \/ WriteReturned

Spec == Init /\ [][Next]_vars

\* ------------------------------------------------------------------------
\* The life of an instance as a state machine: the calls of a server that
\* runs the instance and of a caller that sets it up, with the progress of the
\* application awaited on the lifespan scope and of the downstream server
\* ------------------------------------------------------------------------
\* the awaited application completes its startup (it sends
\* lifespan.startup.complete) and goes on waiting for the shutdown event
LifespanStartupComplete ==
    /\ lifespan = "in_app"
    /\ lifespan' = "started"
    /\ UNCHANGED <<mcp_path_prefix, config, twin, routes, auto_expose, rejects, tools, resources, endpoint_map,
                   mcp_setup_complete, downstream, setup_calls, last>>

\* after a setup that failed, what made the downstream server refuse is put
\* right (by whoever caught the MCPRegistrationError): it accepts every key
DownstreamRecovers ==
    /\ last.outcome = "MCPRegistrationError"
    /\ rejects # {}
    /\ rejects' = {}
    /\ UNCHANGED <<mcp_path_prefix, config, twin, routes, auto_expose, tools, resources, endpoint_map,
                   mcp_setup_complete, downstream, setup_calls, lifespan, last>>

LifecycleNext ==
    \/ LifespanCall
    \/ LifespanStartupComplete
    \/ LifespanAppReturn
    \/ LifespanAppRaise
    \/ AsgiCall
    \/ SetupMcpToolsAndResources
    \/ DownstreamRecovers

LifecycleSpec == Init /\ [][LifecycleNext]_vars

\* ------------------------------------------------------------------------
\* An application with a resource tagged under a URI that is a tool's name
\* ------------------------------------------------------------------------
SharedKeyRouteNames == {"add", "alias", "a_b"}

SharedKeyApps ==
    { rs \in UNION { [1..n -> SharedKeyRouteNames] : n \in 0..MaxRoutes } :
        \A i \in 1..Len(rs) : \A j \in 1..Len(rs) : rs[i] = rs[j] => i = j }

\* LihilMCP.__init__ over such an application, with a downstream server that accepts every key
SharedKeyInit ==
    /\ routes \in SharedKeyApps
    /\ auto_expose \in BOOLEAN
    /\ rejects = {}
    /\ tools = EmptyMap
    /\ resources = EmptyMap
    /\ endpoint_map = EmptyMap
    /\ mcp_setup_complete = FALSE
    /\ downstream = <<>>
    /\ setup_calls = 0
    /\ lifespan = "idle"
    /\ mcp_path_prefix = S_mcp
    /\ config = DefaultFields
    /\ twin = NoTwin
    /\ last = Call("init", <<>>, EmptyKwargs, Done, {}, 0)

SharedKeyNext ==
    \/ SetupMcpToolsAndResources
    \/ CallEndpoint
    \/ CallEndpointAsResource

SharedKeySpec == SharedKeyInit /\ [][SharedKeyNext]_vars

\* ------------------------------------------------------------------------
\* Two instances over one application, given the same calls: one with the
\* defaults of MCPConfig, one with other values of enabled, expose_docs,
\* auth_required and transport
\* ------------------------------------------------------------------------
Transports == { "asgi", "stdio" }

OtherFields == { "enabled", "expose_docs", "auth_required", "transport" }

\* the fields in which a configuration departs from the defaults
Departing(c) == { f \in OtherFields : c[f] # DefaultFields[f] }

\* configurations that depart from the defaults in one of the four fields, or in all of them
TwinConfigs ==
    { c \in { MCPConfig(enabled, S_server_name, expose_docs, a, auth_required, transport, S_mcp) :
                enabled \in BOOLEAN, expose_docs \in BOOLEAN, a \in BOOLEAN,
                auth_required \in BOOLEAN, transport \in Transports } :
        \/ Cardinality(Departing(c)) = Cardinality(OtherFields)
        \/ \E f \in OtherFields : Departing(c) = { f } }

\* LihilMCP(app, MCPConfig(auto_expose=a)) and LihilMCP(app, c) with c.auto_expose = a
ConfigInit ==
    /\ routes \in Apps
    /\ auto_expose \in BOOLEAN
    /\ rejects \in RejectChoices
    /\ tools = EmptyMap
    /\ resources = EmptyMap
    /\ endpoint_map = EmptyMap
    /\ mcp_setup_complete = FALSE
    /\ downstream = <<>>
    /\ setup_calls = 0
    /\ lifespan = "idle"
    /\ mcp_path_prefix = S_mcp
    /\ config = DefaultFields
    /\ \E c \in TwinConfigs : c.auto_expose = auto_expose /\ twin = Twin(c)
    /\ last = Call("init", <<>>, EmptyKwargs, Done, {}, 0)

TwinRegistry ==
    [tools |-> twin.tools, resources |-> twin.resources, endpoint_map |-> twin.endpoint_map,
     downstream |-> twin.downstream, complete |-> twin.complete, raised |-> FALSE, err |-> <<>>,
     read |-> FALSE]

\* setup_mcp_tools_and_resources on both instances
TwinSetup ==
    /\ mcp_setup_complete \/ setup_calls < MaxSetupCalls
    /\ RunSetup("setup", 0)
    /\ LET r == setup_mcp_endpoints(TwinRegistry, rejects, twin.config, routes)
       IN  twin' = [twin EXCEPT !.tools = r.tools, !.resources = r.resources,
                                !.endpoint_map = r.endpoint_map, !.downstream = r.downstream,
                                !.complete = r.complete,
                                !.outcomes = { IF r.raised
                                               THEN Outcome("MCPRegistrationError", V_absent, r.err, <<>>)
                                               ELSE Done }]
    /\ UNCHANGED <<mcp_path_prefix, config, routes, auto_expose, rejects, lifespan>>

\* _call_endpoint with the same arguments on both instances
TwinCallEndpoint ==
    /\ \E tool_name \in DispatchKeys, kwargs \in KwargsSets :
          /\ \E o \in call_endpoint(endpoint_map, tool_name, kwargs) :
                last' = Call("call_endpoint", tool_name, kwargs, o, {}, 0)
          /\ twin' = [twin EXCEPT !.outcomes = call_endpoint(twin.endpoint_map, tool_name, kwargs)]
    /\ UNCHANGED <<mcp_path_prefix, config, routes, auto_expose, rejects, tools, resources, endpoint_map,
                   mcp_setup_complete, downstream, setup_calls, lifespan>>

\* _call_endpoint_as_resource with the same argument on both instances
TwinCallEndpointAsResource ==
    /\ \E uri \in DispatchKeys :
          /\ last' = Call("call_endpoint_as_resource", uri, EmptyKwargs,
                          call_endpoint_as_resource(endpoint_map, uri), {}, 0)
          /\ twin' = [twin EXCEPT !.outcomes = { call_endpoint_as_resource(twin.endpoint_map, uri) }]
    /\ UNCHANGED <<mcp_path_prefix, config, routes, auto_expose, rejects, tools, resources, endpoint_map,
                   mcp_setup_complete, downstream, setup_calls, lifespan>>

ConfigNext ==
    \/ TwinSetup
    \/ TwinCallEndpoint
    \/ TwinCallEndpointAsResource

ConfigSpec == ConfigInit /\ [][ConfigNext]_vars

\* ------------------------------------------------------------------------
\* The transport as a state machine
\* ------------------------------------------------------------------------
\* LihilMCPTransport.__init__ over a LihilMCP that was just constructed
TransportInit ==
    /\ routes = <<>>
    /\ auto_expose = TRUE
    /\ rejects = {}
    /\ tools = EmptyMap
    /\ resources = EmptyMap
    /\ endpoint_map = EmptyMap
    /\ mcp_setup_complete = FALSE
    /\ downstream = <<>>
    /\ setup_calls = 0
    /\ lifespan = "idle"
    /\ mcp_path_prefix \in Prefixes
    /\ config = DefaultFields
    /\ twin = NoTwin
    /\ last = Call("init", <<>>, EmptyKwargs, Done, {}, 0)

\* LihilMCPTransport.__call__
TransportCall ==
    /\ \E request \in Requests, behaviour \in AwaitedHandler :
          last' = AsgiCallRecord("transport", request, behaviour,
                                 transport_call(mcp_path_prefix, request))
    /\ UNCHANGED <<mcp_path_prefix, config, twin, routes, auto_expose, rejects, tools, resources, endpoint_map,
                   mcp_setup_complete, downstream, setup_calls, lifespan>>

\* MCPMiddleware.__call__
MiddlewareCall ==
    /\ \E request \in Requests, behaviour \in AwaitedHandler :
          last' = AsgiCallRecord("middleware", request, behaviour,
                                 middleware_call(mcp_path_prefix, request))
    /\ UNCHANGED <<mcp_path_prefix, config, twin, routes, auto_expose, rejects, tools, resources, endpoint_map,
                   mcp_setup_complete, downstream, setup_calls, lifespan>>

TransportNext ==
    \/ TransportCall
    \/ MiddlewareCall

TransportSpec == TransportInit /\ [][TransportNext]_vars

\* ------------------------------------------------------------------------
\* Schema inference as a state machine: LihilMCP._generate_input_schema
\* applied to one argument
\* ------------------------------------------------------------------------
\* the annotation of a parameter: one of the six classes of type_map, none
\* ("empty"), another hashable object ("other"), an object without hash
Annotations == { "str", "int", "float", "bool", "list", "dict", "empty", "other", "unhashable" }
ParamNames == { "a", "b", "self", "cls" }
SchemaParams == { Param(n, ann, d, 0) : n \in ParamNames, ann \in Annotations, d \in BOOLEAN }

\* parameter lists: the names of one list differ
ParamLists ==
    { ps \in UNION { [1..n -> SchemaParams] : n \in 0..MaxParams } :
        \A i \in 1..Len(ps) : \A j \in 1..Len(ps) : ps[i].name = ps[j].name => i = j }

Arguments == { NotCallable } \cup { Callable(ps) : ps \in ParamLists }

\* a LihilMCP that was just constructed, and the argument of the call to come
SchemaInit ==
    /\ routes = <<>>
    /\ auto_expose = TRUE
    /\ rejects = {}
    /\ tools = EmptyMap
    /\ resources = EmptyMap
    /\ endpoint_map = EmptyMap
    /\ mcp_setup_complete = FALSE
    /\ downstream = <<>>
    /\ setup_calls = 0
    /\ lifespan = "idle"
    /\ mcp_path_prefix = S_mcp
    /\ config = DefaultFields
    /\ twin = NoTwin
    /\ \E arg \in Arguments :
          last = [Call("init", <<>>, EmptyKwargs, Done, {}, 0) EXCEPT !.argument = arg]

\* LihilMCP._generate_input_schema
GenerateInputSchema ==
    /\ last' = [last EXCEPT !.op = "generate_input_schema",
                            !.outcome = "ok",
                            !.schema = schema_of(last.argument)]
    /\ UNCHANGED <<mcp_path_prefix, config, twin, routes, auto_expose, rejects, tools, resources, endpoint_map,
                   mcp_setup_complete, downstream, setup_calls, lifespan>>

SchemaNext == GenerateInputSchema

SchemaSpec == SchemaInit /\ [][SchemaNext]_vars

\* ------------------------------------------------------------------------
\* The decorators as a state machine: one function object, decorated and inspected
\* ------------------------------------------------------------------------
Titles == { <<>>, T_up }
Descriptions == { <<>>, T_sum }
UriTemplates == { U_health, S_scheme }
MimeTypes == { <<>>, S_json }

\* the arguments of one decorator call
Applied(kind, uri_template, title, description) ==
    [kind |-> kind, uri_template |-> uri_template, title |-> title, description |-> description]

\* a module that has just defined an undecorated function
DecoratorInit ==
    /\ routes = <<>>
    /\ auto_expose = TRUE
    /\ rejects = {}
    /\ tools = EmptyMap
    /\ resources = EmptyMap
    /\ endpoint_map = EmptyMap
    /\ mcp_setup_complete = FALSE
    /\ downstream = <<>>
    /\ setup_calls = 0
    /\ lifespan = "idle"
    /\ mcp_path_prefix = S_mcp
    /\ config = DefaultFields
    /\ twin = NoTwin
    /\ last = Call("init", <<>>, EmptyKwargs, Done, {}, 0)

\* @mcp_tool(title=..., description=...) over the function: the name is
\* bound to what the decorator returns
McpTool ==
    /\ Len(last.decoration.applied) < MaxDecorations
    /\ \E title \in Titles, description \in Descriptions :
          last' = [last EXCEPT !.op = "mcp_tool",
                               !.decoration.func = mcp_tool(title, description, @),
                               !.decoration.applied = Append(@, Applied("tool", <<>>, title, description))]
    /\ UNCHANGED <<mcp_path_prefix, config, twin, routes, auto_expose, rejects, tools, resources, endpoint_map,
                   mcp_setup_complete, downstream, setup_calls, lifespan>>

\* @mcp_resource(uri_template, title=..., description=..., mime_type=...) over the function
McpResource ==
    /\ Len(last.decoration.applied) < MaxDecorations
    /\ \E uri_template \in UriTemplates, title \in Titles, description \in Descriptions,
          mime_type \in MimeTypes :
          last' = [last EXCEPT !.op = "mcp_resource",
                               !.decoration.func = mcp_resource(uri_template, title, description, mime_type, @),
                               !.decoration.applied =
                                   Append(@, Applied("resource", uri_template, title, description))]
    /\ UNCHANGED <<mcp_path_prefix, config, twin, routes, auto_expose, rejects, tools, resources, endpoint_map,
                   mcp_setup_complete, downstream, setup_calls, lifespan>>

\* get_mcp_metadata(func)
GetMcpMetadata ==
    /\ last' = [last EXCEPT !.op = "get_mcp_metadata",
                            !.decoration.metadata = get_mcp_metadata_attr(last.decoration.func)]
    /\ UNCHANGED <<mcp_path_prefix, config, twin, routes, auto_expose, rejects, tools, resources, endpoint_map,
                   mcp_setup_complete, downstream, setup_calls, lifespan>>

\* is_mcp_endpoint(func)
IsMcpEndpoint ==
    /\ last' = [last EXCEPT !.op = "is_mcp_endpoint",
                            !.decoration.is_endpoint = is_mcp_endpoint(last.decoration.func)]
    /\ UNCHANGED <<mcp_path_prefix, config, twin, routes, auto_expose, rejects, tools, resources, endpoint_map,
                   mcp_setup_complete, downstream, setup_calls, lifespan>>

DecoratorNext ==
    \/ McpTool
    \/ McpResource
    \/ GetMcpMetadata
    \/ IsMcpEndpoint

DecoratorSpec == DecoratorInit /\ [][DecoratorNext]_vars

\* ------------------------------------------------------------------------
\* Properties
\* ------------------------------------------------------------------------
DeclaredNames(f) == { Params(f)[i].name : i \in 1..Len(Params(f)) }
RequiredNames(f) == { Params(f)[i].name : i \in { j \in 1..Len(Params(f)) : ~Params(f)[j].hasDefault } }
DeclaredParam(f, n) == Params(f)[CHOOSE i \in 1..Len(Params(f)) : Params(f)[i].name = n]

\* the keys of kwargs are all declared and every parameter without a default is given
Bindable(f, kwargs) ==
    /\ (DOMAIN kwargs) \subseteq DeclaredNames(f)
    /\ RequiredNames(f) \subseteq DOMAIN kwargs

ToolDispatch == last.op = "call_endpoint"
ResourceDispatch == last.op = "call_endpoint_as_resource"
Registered == last.key \in DOMAIN endpoint_map

\* C1: a dispatch of a key that is not in the registry fails with MCPError
\* "Tool <name> not found" (tool entry point) or "Resource <uri> not found"
\* (resource entry point); the message is exactly that text, so it names the
\* key and is not wrapped as an invocation error, and no callable is invoked.
C1_LookupFailure ==
    /\ (ToolDispatch /\ ~Registered) =>
          /\ last.outcome = "MCPError"
          /\ last.message = S_Tool \o last.key \o S_not_found
          /\ ~Contains(last.message, S_ErrCalling)
          /\ last.calls = <<>>
    /\ (ResourceDispatch /\ ~Registered) =>
          /\ last.outcome = "MCPError"
          /\ last.message = S_Resource \o last.key \o S_not_found
          /\ ~Contains(last.message, S_ErrAccessing)
          /\ last.calls = <<>>

C1_Witness ==
    /\ ToolDispatch
    /\ ~Registered
    /\ DOMAIN endpoint_map # {}
    /\ last.outcome = "MCPError"

\* C2: for a registered tool, kwargs with a key that is no declared parameter,
\* or without a parameter that has no default, fail with MCPError and the
\* callable is not invoked; any other kwargs bind, and the callable is invoked.
C2_BindFailure ==
    (ToolDispatch /\ Registered) =>
        LET f == endpoint_map[last.key].func
        IN  IF Bindable(f, last.kwargs)
            THEN Len(last.calls) = 1
            ELSE last.outcome = "MCPError" /\ last.calls = <<>>

C2_Witness ==
    /\ ToolDispatch
    /\ Registered
    /\ ~((DOMAIN last.kwargs) \subseteq DeclaredNames(endpoint_map[last.key].func))
    /\ RequiredNames(endpoint_map[last.key].func) \subseteq DOMAIN last.kwargs
    /\ RequiredNames(endpoint_map[last.key].func) # {}
    /\ last.outcome = "MCPError"

\* C3: when the callable of a registered tool raises, the dispatch fails with
\* MCPError, and the message contains the tool's name and the text of the
\* exception; no other kind of error leaves a dispatch.
C3_InvocationFailure ==
    /\ (ToolDispatch \/ ResourceDispatch) => last.outcome \in {"ok", "MCPError"}
    /\ (ToolDispatch /\ Len(last.calls) = 1
          /\ Body(last.calls[1].func, last.calls[1].arguments).raised) =>
          /\ last.outcome = "MCPError"
          /\ Contains(last.message, last.key)
          /\ Contains(last.message, Body(last.calls[1].func, last.calls[1].arguments).msg)

C3_Witness ==
    /\ ToolDispatch
    /\ Len(last.calls) = 1
    /\ Body(last.calls[1].func, last.calls[1].arguments).raised
    /\ last.outcome = "MCPError"

\* C4: a dispatch of a registered tool whose kwargs bind invokes the target
\* callable once; each argument is the supplied value, or the declared default
\* where none is supplied; a primitive return value is returned unchanged;
\* coroutine functions and plain functions alike.
C4_Dispatch ==
    (ToolDispatch /\ Registered /\ Bindable(endpoint_map[last.key].func, last.kwargs)) =>
        LET f == endpoint_map[last.key].func
            r == Body(f, last.calls[1].arguments)
        IN  /\ Len(last.calls) = 1
            /\ last.calls[1].func = f
            /\ DOMAIN last.calls[1].arguments = DeclaredNames(f)
            /\ \A n \in DeclaredNames(f) :
                  last.calls[1].arguments[n] =
                      IF n \in DOMAIN last.kwargs THEN last.kwargs[n] ELSE DeclaredParam(f, n).default
            /\ (~r.raised /\ r.value.kind # "object") =>
                  /\ last.outcome = "ok"
                  /\ last.value = r.value

C4_Witness ==
    /\ ToolDispatch
    /\ Registered
    /\ IsCoroutineFunction(endpoint_map[last.key].func)
    /\ DOMAIN last.kwargs = {"a"}
    /\ last.outcome = "ok"
    /\ last.value = V_int(6)

\* the (route, endpoint) pairs of the application, in the order setup visits them
Items == IterationOrder(routes)
TagOf(item) == get_mcp_metadata(item.endpoint.func).type
NameOf(item) == FuncName(item.endpoint.func)
IsMutatingVerb(method) == Upper(method) \in {S_POST, S_PUT, S_PATCH}
IsReadVerb(method) == Upper(method) = S_GET

\* "lihil://" and the route path with "/" replaced by "_" and the "_" at both ends removed
Slug(path) == S_scheme \o Strip(Replace(path, "/", "_"), "_")

\* what the registration of one pair is to be: a tool, a resource or nothing
KindOf(item, auto) ==
    CASE TagOf(item) = "tool" -> "tool"
      [] TagOf(item) = "resource" -> "resource"
      [] TagOf(item) = "none" /\ auto /\ IsMutatingVerb(item.endpoint.method) -> "tool"
      [] TagOf(item) = "none" /\ auto /\ IsReadVerb(item.endpoint.method) -> "resource"
      [] OTHER -> "none"

\* ... and under which key
KeyOf(item) ==
    CASE TagOf(item) = "tool" -> NameOf(item)
      [] TagOf(item) = "resource" ->
            Or(get_mcp_metadata(item.endpoint.func).uri_template, S_scheme \o NameOf(item))
      [] TagOf(item) = "none" /\ IsMutatingVerb(item.endpoint.method) -> NameOf(item)
      [] OTHER -> Slug(item.route.path)

\* the pairs with the kind and the key each is to be registered under
PlanOf(items, auto) ==
    [i \in 1..Len(items) |->
        [item |-> items[i], kind |-> KindOf(items[i], auto), key |-> KeyOf(items[i]),
         tag |-> TagOf(items[i]), name |-> NameOf(items[i])]]

Plan == PlanOf(Items, auto_expose)

Registers(p) == p.kind # "none"
Offends(p) == Registers(p) /\ p.key \in rejects
KeysUpTo(plan, n, kind) == { plan[i].key : i \in { j \in 1..n : plan[j].kind = kind } }
KindKey(w) == <<w.kind, w.key>>
KindKeys(ws) == [i \in 1..Len(ws) |-> KindKey(ws[i])]

RECURSIVE RegistrationsUpTo(_, _)
RegistrationsUpTo(plan, n) ==
    IF n = 0
    THEN <<>>
    ELSE RegistrationsUpTo(plan, n - 1)
         \o (IF Registers(plan[n]) THEN <<<<plan[n].kind, plan[n].key>>>> ELSE <<>>)

SetupReturned == last.op \in {"setup", "lifespan"} /\ last.outcome # "AppError"
SetupFailed == SetupReturned /\ last.outcome = "MCPRegistrationError"
FirstPass == setup_calls = 1

\* C5: when the registration of an endpoint raises, setup raises
\* MCPRegistrationError naming that endpoint's function, the flag stays false,
\* and nothing after that endpoint in iteration order is registered: the
\* registry holds the keys of the endpoints up to it, and the wrappers
\* installed by the pass are those of the endpoints before it.
RegistrationFailureOn(plan) ==
    /\ (\E i \in 1..Len(plan) : Offends(plan[i])) => SetupFailed
    /\ SetupFailed =>
          \E i \in 1..Len(plan) :
              /\ Offends(plan[i])
              /\ \A j \in 1..(i - 1) : ~Offends(plan[j])
              /\ last.message = S_FailedRegister \o plan[i].name \o S_colon \o T_rejected
              /\ ~mcp_setup_complete
              /\ DOMAIN tools = KeysUpTo(plan, i, "tool")
              /\ DOMAIN resources = KeysUpTo(plan, i, "resource")
              /\ DOMAIN endpoint_map = KeysUpTo(plan, i, "tool") \cup KeysUpTo(plan, i, "resource")
              /\ FirstPass => KindKeys(downstream) = RegistrationsUpTo(plan, i - 1)

C5_RegistrationFailure == SetupReturned => RegistrationFailureOn(Plan)

C5_Witness ==
    /\ SetupFailed
    /\ \E i \in 1..Len(Plan) :
          /\ Offends(Plan[i])
          /\ \A j \in 1..(i - 1) : ~Offends(Plan[j])
          /\ \E k \in (i + 1)..Len(Plan) :
                /\ Registers(Plan[k])
                /\ Plan[k].key \notin DOMAIN endpoint_map

\* C6: after setup, an endpoint whose callable is tagged is registered as
\* tagged (a tool under the function name, a resource under its URI) whatever
\* its verb and whatever auto_expose is, and once only; an untagged endpoint is
\* registered only with auto_expose, and without it leaves no entry and no wrapper.
TaggingOn(plan) ==
    LET installed == { KindKey(downstream[k]) : k \in DOMAIN downstream }
    IN  /\ \A i \in 1..Len(plan) :
              /\ plan[i].tag = "tool" =>
                    /\ plan[i].name \in DOMAIN tools
                    /\ <<"tool", plan[i].name>> \in installed
              /\ plan[i].tag = "resource" =>
                    /\ plan[i].key \in DOMAIN resources
                    /\ <<"resource", plan[i].key>> \in installed
        /\ FirstPass =>
              Len(downstream) =
                  Cardinality({ i \in 1..Len(plan) : plan[i].tag # "none" })
                  + (IF auto_expose
                     THEN Cardinality({ i \in 1..Len(plan) :
                                          /\ plan[i].tag = "none"
                                          /\ Upper(plan[i].item.endpoint.method)
                                                \in {S_POST, S_PUT, S_PATCH, S_GET} })
                     ELSE 0)
        /\ ~auto_expose =>
              /\ DOMAIN tools = { plan[i].name : i \in { j \in 1..Len(plan) : plan[j].tag = "tool" } }
              /\ DOMAIN resources = { plan[i].key : i \in { j \in 1..Len(plan) : plan[j].tag = "resource" } }
              /\ DOMAIN endpoint_map = DOMAIN tools \cup DOMAIN resources

C6_Tagging == mcp_setup_complete => TaggingOn(Plan)

\* a tagged resource on a mutating verb and a tagged tool, set up with auto_expose
C6_Witness ==
    /\ mcp_setup_complete
    /\ auto_expose
    /\ FirstPass
    /\ \E i \in 1..Len(Items) : TagOf(Items[i]) = "resource" /\ IsMutatingVerb(Items[i].endpoint.method)
    /\ \E i \in 1..Len(Items) : TagOf(Items[i]) = "tool" /\ ~IsMutatingVerb(Items[i].endpoint.method)
    /\ N_health \notin DOMAIN tools

\* C7: with auto_expose, an untagged endpoint is classified by its verb in
\* upper case: POST, PUT and PATCH register a tool under the function name, GET
\* registers a resource under the slug of the route path, any other verb
\* registers nothing.
AutoClassificationOn(plan) ==
    /\ \A i \in 1..Len(plan) :
          plan[i].tag = "none" =>
              /\ IsMutatingVerb(plan[i].item.endpoint.method) =>
                    /\ plan[i].name \in DOMAIN tools
                    /\ tools[plan[i].name].name = plan[i].name
                    /\ plan[i].name \in DOMAIN endpoint_map
              /\ IsReadVerb(plan[i].item.endpoint.method) =>
                    /\ Slug(plan[i].item.route.path) \in DOMAIN resources
                    /\ resources[Slug(plan[i].item.route.path)].uri = Slug(plan[i].item.route.path)
                    /\ Slug(plan[i].item.route.path) \in DOMAIN endpoint_map
    /\ DOMAIN tools =
          { plan[i].name : i \in { j \in 1..Len(plan) :
                \/ plan[j].tag = "tool"
                \/ plan[j].tag = "none" /\ IsMutatingVerb(plan[j].item.endpoint.method) } }
    /\ DOMAIN resources =
          { plan[i].key : i \in { j \in 1..Len(plan) :
                \/ plan[j].tag = "resource"
                \/ plan[j].tag = "none" /\ IsReadVerb(plan[j].item.endpoint.method) } }
    /\ (\E i \in 1..Len(routes) : routes[i] = "a/b") =>
          <<"l", "i", "h", "i", "l", ":", "/", "/", "a", "_", "b">> \in DOMAIN resources
    /\ (\E i \in 1..Len(routes) : routes[i] = "a_b") =>
          <<"l", "i", "h", "i", "l", ":", "/", "/", "a", "_", "b">> \in DOMAIN resources
    /\ (\E i \in 1..Len(routes) : routes[i] = "root") =>
          <<"l", "i", "h", "i", "l", ":", "/", "/">> \in DOMAIN resources

C7_AutoClassification == (mcp_setup_complete /\ auto_expose) => AutoClassificationOn(Plan)

\* a lower-case mutating verb, a GET and a DELETE, all untagged, in one setup
C7_Witness ==
    /\ mcp_setup_complete
    /\ auto_expose
    /\ \E i \in 1..Len(Items) :
          /\ TagOf(Items[i]) = "none"
          /\ Items[i].endpoint.method = M_put
          /\ NameOf(Items[i]) \in DOMAIN tools
    /\ \E i \in 1..Len(Items) :
          /\ TagOf(Items[i]) = "none"
          /\ Items[i].endpoint.method = S_GET
          /\ Items[i].route.path = P_a_b
          /\ U_health \in DOMAIN resources
    /\ \E i \in 1..Len(Items) :
          /\ TagOf(Items[i]) = "none"
          /\ Items[i].endpoint.method = M_DELETE
          /\ NameOf(Items[i]) \notin DOMAIN tools
    /\ Cardinality(DOMAIN endpoint_map) = 3

\* C8: the tagged endpoints of the application are in the tool and resource
\* tables in every state from construction on, whether or not setup or a
\* lifespan event has run.
RegisteredOn(plan) ==
    \A i \in 1..Len(plan) :
        /\ plan[i].tag = "tool" => plan[i].name \in DOMAIN tools
        /\ plan[i].tag = "resource" => plan[i].key \in DOMAIN resources

C8_RegisteredAtConstruction == RegisteredOn(Plan)

\* C9: once setup has completed, no dispatch, no read of tools or resources
\* and no non-lifespan ASGI call changes the tool table, the resource table or
\* the endpoint map.
C9_ReadOnlyAfterSetup ==
    [][(/\ mcp_setup_complete
        /\ last'.op \in {"call_endpoint", "call_endpoint_as_resource", "tools", "resources", "asgi"})
       => (tools' = tools /\ resources' = resources /\ endpoint_map' = endpoint_map)]_vars

\* after setup, a dispatch that invoked a callable, on a registry with tools and resources
C9_Witness ==
    /\ mcp_setup_complete
    /\ DOMAIN tools # {}
    /\ DOMAIN resources # {}
    /\ ResourceDispatch
    /\ Registered
    /\ last.outcome = "ok"

\* the last pair of the plan that registers under key
LastIndexOf(plan, key) ==
    CHOOSE i \in 1..Len(plan) :
        /\ Registers(plan[i]) /\ plan[i].key = key
        /\ \A j \in (i + 1)..Len(plan) : ~(Registers(plan[j]) /\ plan[j].key = key)

LastFuncOf(plan, key) == plan[LastIndexOf(plan, key)].item.endpoint.func

\* C10: when several endpoints of one setup yield the same key, setup raises
\* nothing for that, the entry of the key is the one of the endpoint registered
\* last, and a dispatch of the key, also by any wrapper installed for the key,
\* invokes that endpoint's callable.
LastRegistrationWinsOn(plan) ==
    /\ (SetupReturned /\ \A i \in 1..Len(plan) : ~Offends(plan[i])) =>
          last.outcome = "ok" /\ mcp_setup_complete
    /\ mcp_setup_complete =>
          /\ \A k \in DOMAIN endpoint_map :
                endpoint_map[k] = plan[LastIndexOf(plan, k)].item.endpoint
          /\ \A k \in DOMAIN tools :
                tools[k].inputSchema = generate_input_schema(LastFuncOf(plan, k))
          /\ \A k \in DOMAIN resources :
                resources[k].name = plan[LastIndexOf(plan, k)].name
          /\ ((ToolDispatch \/ ResourceDispatch) /\ Len(last.calls) = 1) =>
                last.calls[1].func = LastFuncOf(plan, last.key)
          /\ SetupReturned =>
                \A w \in DOMAIN downstream :
                    LET later == LastFuncOf(plan, downstream[w].key)
                    IN  /\ downstream[w].kind = "tool" =>
                              \A kwargs \in KwargsSets :
                                  \A o \in mcp_tool_wrapper(endpoint_map, downstream[w], kwargs) :
                                      \A c \in DOMAIN o.calls : o.calls[c].func = later
                        /\ downstream[w].kind = "resource" =>
                              LET o == mcp_resource_wrapper(endpoint_map, downstream[w])
                              IN  \A c \in DOMAIN o.calls : o.calls[c].func = later

C10_LastRegistrationWins == LastRegistrationWinsOn(Plan)

\* two endpoints with different callables under one key, and a dispatch of the key
C10_Witness ==
    /\ mcp_setup_complete
    /\ ToolDispatch
    /\ Len(last.calls) = 1
    /\ \E i \in 1..Len(Plan) : \E j \in (i + 1)..Len(Plan) :
          /\ Registers(Plan[i]) /\ Registers(Plan[j])
          /\ Plan[i].key = last.key /\ Plan[j].key = last.key
          /\ Plan[i].item.endpoint.func # Plan[j].item.endpoint.func
          /\ last.calls[1].func = Plan[j].item.endpoint.func
    /\ Len(downstream) > Cardinality(DOMAIN endpoint_map)

\* the outcome of the latest call
LastOutcome == Outcome(last.outcome, last.value, last.message, last.calls)

\* the description the registration of a pair hands to FastMCP.tool()
ToolDescriptionOf(p) ==
    IF p.tag = "tool"
    THEN Or(get_mcp_metadata(p.item.endpoint.func).description,
            Or(Doc(p.item.endpoint.func), S_ToolDefault \o p.name))
    ELSE Or(Doc(p.item.endpoint.func), S_AutoTool \o p.name)

\* the pairs of the plan that register, in order
RECURSIVE RegisteringPairs(_, _)
RegisteringPairs(plan, n) ==
    IF n = 0
    THEN <<>>
    ELSE RegisteringPairs(plan, n - 1) \o (IF Registers(plan[n]) THEN <<plan[n]>> ELSE <<>>)

\* C11: a setup that completes has installed one wrapper downstream for each
\* registration, in order, of the registration's kind, capturing its key (and
\* for a tool handed its description); a call of a tool wrapper with kwargs
\* has an outcome of _call_endpoint(key, kwargs) and a call of a resource
\* wrapper has the outcome of _call_endpoint_as_resource(key), for the key the
\* wrapper was registered under.
ForwardingOn(plan) ==
    /\ mcp_setup_complete =>
          LET regs == RegisteringPairs(plan, Len(plan))
          IN  /\ Len(downstream) = Len(regs)
              /\ \A i \in 1..Len(regs) :
                    /\ downstream[i].kind = regs[i].kind
                    /\ downstream[i].key = regs[i].key
                    /\ regs[i].kind = "tool" => downstream[i].description = ToolDescriptionOf(regs[i])
    /\ last.op = "tool_wrapper" =>
          \A i \in last.view :
              /\ downstream[i].kind = "tool"
              /\ downstream[i].key \in DOMAIN tools
              /\ LastOutcome \in call_endpoint(endpoint_map, downstream[i].key, last.kwargs)
    /\ last.op = "resource_wrapper" =>
          \A i \in last.view :
              /\ downstream[i].kind = "resource"
              /\ downstream[i].key \in DOMAIN resources
              /\ LastOutcome = call_endpoint_as_resource(endpoint_map, downstream[i].key)

C11_Forwarding == ForwardingOn(Plan)

\* a tool wrapper called with both arguments reached the callable, which returned
C11_Witness ==
    /\ mcp_setup_complete
    /\ last.op = "tool_wrapper"
    /\ DOMAIN last.kwargs = {"a", "b"}
    /\ last.outcome = "ok"
    /\ Len(last.calls) = 1
    /\ \E i \in DOMAIN downstream : downstream[i].kind = "resource"

\* ------------------------------------------------------------------------
\* Properties of the transport
\* ------------------------------------------------------------------------
TransportEntry == last.op \in {"transport", "middleware"}
\* the handler the latest request was forwarded to first
Chosen == last.forwarded[1].handler

\* the value under the exact name content-type, which is that of the last such
\* pair of the list, contains application/json
HasJsonContentType(headers) ==
    \E i \in 1..Len(headers) :
        /\ headers[i].name = S_content_type
        /\ \A j \in (i + 1)..Len(headers) : headers[j].name # S_content_type
        /\ Contains(headers[i].value, S_json)

\* no header of the list has jsonrpc in its name or in its value
NoJsonrpcAnywhere(headers) ==
    \A i \in 1..Len(headers) :
        ~Contains(headers[i].name, S_jsonrpc) /\ ~Contains(headers[i].value, S_jsonrpc)

\* C12: a request goes to the protocol handler exactly when its scope type is
\* "http" and either its path starts with the configured prefix, or the value
\* of its content-type header contains application/json and the text of the
\* header dict contains jsonrpc; matching is exact-case: a websocket scope
\* under the prefix, a request without headers off the prefix, and upper-case
\* Content-Type / X-JSONRPC headers off the prefix go to the application.
C12_Classification ==
    TransportEntry =>
        LET scope == last.request.scope
        IN  /\ (Chosen = "transport") <=>
                  /\ scope.type = "http"
                  /\ \/ StartsWith(scope.path, mcp_path_prefix)
                     \/ /\ HasJsonContentType(scope.headers)
                        /\ Contains(StrOfDict(DictOf(scope.headers)), S_jsonrpc)
            /\ scope.type # "http" => Chosen = "app"
            /\ (scope.headers = <<>> /\ ~StartsWith(scope.path, mcp_path_prefix)) => Chosen = "app"
            /\ (scope.headers = <<H_upper_json, H_upper_jsonrpc>>
                   /\ ~StartsWith(scope.path, mcp_path_prefix)) => Chosen = "app"

\* a JSON content type and jsonrpc in another header, off the prefix
C12_Witness ==
    /\ last.op = "transport"
    /\ last.request.scope.type = "http"
    /\ ~StartsWith(last.request.scope.path, mcp_path_prefix)
    /\ last.request.scope.headers = <<H_json, H_custom>>
    /\ Chosen = "transport"

\* C13: an http request whose path starts with the prefix goes to the protocol
\* handler whatever its content type; an http request off the prefix with
\* jsonrpc in no header goes to the application, also when its content type is
\* application/json.
C13_PrefixAndMarker ==
    (TransportEntry /\ last.request.scope.type = "http") =>
        LET scope == last.request.scope
        IN  /\ StartsWith(scope.path, mcp_path_prefix) => Chosen = "transport"
            /\ (~StartsWith(scope.path, mcp_path_prefix) /\ NoJsonrpcAnywhere(scope.headers))
                  => Chosen = "app"

\* content-type application/json alone, off the prefix: served by the application
C13_Witness ==
    /\ last.op = "transport"
    /\ last.request.scope.type = "http"
    /\ ~StartsWith(last.request.scope.path, mcp_path_prefix)
    /\ last.request.scope.headers = <<H_json>>
    /\ Chosen = "app"

\* C14: every request is forwarded to one handler, once, with the scope,
\* receive and send it came with: the protocol transport when it is protocol
\* traffic and the wrapped application otherwise; what the handler raises
\* leaves the call as it is, and the middleware forwards as the transport
\* does, never to its own app.
C14_Forwarding ==
    TransportEntry =>
        /\ Len(last.forwarded) = 1
        /\ last.forwarded[1] =
              HandlerCall(IF is_mcp_request(mcp_path_prefix, last.request.scope)
                          THEN "transport" ELSE "app",
                          last.request.scope, last.request.receive, last.request.send)
        /\ \A i \in 1..Len(last.forwarded) : last.forwarded[i].handler # "middleware_app"
        /\ last.outcome \in {"ok", "HandlerError"}
        /\ last.outcome = "HandlerError" => last.message = T_boom

\* the middleware forwarded protocol traffic to the transport, which raised
C14_Witness ==
    /\ last.op = "middleware"
    /\ Chosen = "transport"
    /\ last.outcome = "HandlerError"
    /\ last.request.scope.headers = <<H_json_rpc>>

\* ------------------------------------------------------------------------
\* Properties of LihilMCP as an ASGI application and of the dispatcher
\* ------------------------------------------------------------------------
\* C15: a call of LihilMCP with a scope that is no lifespan scope forwards the
\* scope, receive and send it came with to the wrapped application, once and
\* to no other handler, whatever the path and the headers, and the step runs
\* no setup and leaves the registry as it was.
C15_AsgiForwarding ==
    [][(last'.op = "asgi") =>
          /\ last'.request.scope.type # "lifespan"
          /\ last'.forwarded = <<HandlerCall("app", last'.request.scope,
                                             last'.request.receive, last'.request.send)>>
          /\ last'.app_calls = 1
          /\ tools' = tools /\ resources' = resources /\ endpoint_map' = endpoint_map
          /\ downstream' = downstream
          /\ mcp_setup_complete' = mcp_setup_complete
          /\ setup_calls' = setup_calls]_vars

\* an http request under the protocol prefix with JSON-RPC headers, made before
\* any setup of an application that has endpoints to register
C15_Witness ==
    /\ last.op = "asgi"
    /\ last.request.scope.type = "http"
    /\ StartsWith(last.request.scope.path, mcp_path_prefix)
    /\ is_mcp_request(mcp_path_prefix, last.request.scope)
    /\ last.forwarded[1].handler = "app"
    /\ ~mcp_setup_complete
    /\ setup_calls = 0
    /\ Len(routes) > 0
    /\ DOMAIN endpoint_map = {}

SchemaInferred == last.op = "generate_input_schema" /\ last.schema.present
Declared == last.argument.parameters
Elements(seq) == { seq[i] : i \in 1..Len(seq) }

\* C18: in an inferred schema the required list holds a parameter name exactly
\* when the parameter (other than self and cls) has no default, whatever its
\* annotation; the parameters of a callable whose parameters are all without
\* default and without annotation are all required.
C18_Required ==
    SchemaInferred =>
        /\ \A i \in 1..Len(Declared) :
              Declared[i].name \notin {"self", "cls"} =>
                  ((Declared[i].name \in Elements(last.schema.required)) <=> ~Declared[i].hasDefault)
        /\ Elements(last.schema.required) \subseteq DOMAIN last.schema.properties
        /\ (\A i \in 1..Len(Declared) : ~Declared[i].hasDefault /\ Declared[i].ann = "empty") =>
              Elements(last.schema.required) = { Declared[i].name : i \in 1..Len(Declared) } \ {"self", "cls"}

\* an untyped parameter without default and a typed parameter with a default
C18_Witness ==
    /\ SchemaInferred
    /\ Declared = <<Param("a", "empty", FALSE, 0), Param("b", "int", TRUE, 0)>>
    /\ last.schema.required = <<"a">>

\* C19: in an inferred schema each parameter has the type the table gives for
\* its annotation (str string, int integer, float number, bool boolean, list
\* array, dict object), and string when it has another annotation or none.
C19_TypeTable ==
    SchemaInferred =>
        /\ DOMAIN last.schema.properties = { Declared[i].name : i \in 1..Len(Declared) } \ {"self", "cls"}
        /\ \A i \in 1..Len(Declared) :
              Declared[i].name \notin {"self", "cls"} =>
                  <<Declared[i].ann, last.schema.properties[Declared[i].name]>> \in
                      { <<"str", "string">>, <<"int", "integer">>, <<"float", "number">>,
                        <<"bool", "boolean">>, <<"list", "array">>, <<"dict", "object">>,
                        <<"empty", "string">>, <<"other", "string">> }

\* a parameter with an annotation outside the table next to a float parameter
C19_Witness ==
    /\ SchemaInferred
    /\ Declared = <<Param("a", "other", FALSE, 0), Param("b", "float", TRUE, 0)>>
    /\ last.schema.properties["a"] = "string"
    /\ last.schema.properties["b"] = "number"

\* C20: schema inference returns None exactly when the callable has no
\* parameter other than self and cls, or when the inspection raises: for an
\* argument inspect.signature refuses, or for an annotation that cannot be
\* looked up in the table; the call itself returns in every case.
C20_NoSchema ==
    last.op = "generate_input_schema" =>
        /\ last.outcome = "ok"
        /\ ~last.schema.present <=>
              \/ ~last.argument.callable
              \/ \A i \in 1..Len(Declared) : Declared[i].name \in {"self", "cls"}
              \/ \E i \in 1..Len(Declared) :
                    Declared[i].name \notin {"self", "cls"} /\ Declared[i].ann = "unhashable"

\* an argument that is no callable
C20_Witness ==
    /\ last.op = "generate_input_schema"
    /\ ~last.argument.callable
    /\ ~last.schema.present
    /\ last.outcome = "ok"

\* the position of a name in the declared parameter list
DeclaredIndex(n) == CHOOSE i \in 1..Len(Declared) : Declared[i].name = n

\* C21: an inferred schema has type "object", its property names are exactly
\* the declared parameter names other than self and cls (wherever those
\* stand), every required name is a property name, and the required list
\* follows the declaration order without repeating a name.
C21_Shape ==
    SchemaInferred =>
        /\ last.schema.type = "object"
        /\ DOMAIN last.schema.properties = Elements(NamesOf(Declared)) \ {"self", "cls"}
        /\ \A i \in 1..Len(last.schema.required) :
              /\ last.schema.required[i] \in DOMAIN last.schema.properties
              /\ \A j \in 1..Len(last.schema.required) :
                    i < j => DeclaredIndex(last.schema.required[i]) < DeclaredIndex(last.schema.required[j])

\* two required parameters declared against the alphabet
C21_Witness ==
    /\ SchemaInferred
    /\ Declared = <<Param("b", "int", FALSE, 0), Param("a", "str", FALSE, 0)>>
    /\ last.schema.required = <<"b", "a">>
    /\ last.schema.type = "object"

\* ------------------------------------------------------------------------
\* Properties of the registry over the lifetime of an instance
\* ------------------------------------------------------------------------
\* C22: a read of tools or resources hands out a mapping with the keys and
\* entries the table has at the read and leaves the registry alone; adding,
\* removing or replacing a key in the mapping handed out changes neither
\* table nor the endpoint map, so later reads and dispatches see the registry
\* as it was.
C22_Copies ==
    [][/\ last'.op = "tools" =>
             /\ last'.returned.entries = tools
             /\ tools' = tools /\ resources' = resources /\ endpoint_map' = endpoint_map
       /\ last'.op = "resources" =>
             /\ last'.returned.entries = resources
             /\ tools' = tools /\ resources' = resources /\ endpoint_map' = endpoint_map
       /\ last'.op \in {"write_tools", "write_resources"} =>
             (tools' = tools /\ resources' = resources /\ endpoint_map' = endpoint_map)]_vars

\* a caller has deleted a key from the mapping the tools property handed it:
\* the table still has the key
C22_Witness ==
    /\ last.op = "write_tools"
    /\ mcp_setup_complete
    /\ N_add \in DOMAIN tools
    /\ N_add \notin DOMAIN last.returned.entries
    /\ N_add \in DOMAIN endpoint_map

\* ------------------------------------------------------------------------
\* Properties of the decorators
\* ------------------------------------------------------------------------
LatestApplied == last.decoration.applied[Len(last.decoration.applied)]

\* C23: the decorators hand back the function object they were given;
\* get_mcp_metadata returns None for a function no decorator was applied to
\* and otherwise the kind, title, description and URI given to the decorator
\* applied last; is_mcp_endpoint holds exactly for a decorated function, that
\* is exactly when get_mcp_metadata is not None.
C23_Decorators ==
    /\ last.decoration.func.id = PlainFunction.id
    /\ last.op = "get_mcp_metadata" =>
          IF last.decoration.applied = <<>>
          THEN last.decoration.metadata = NoMeta
          ELSE /\ last.decoration.metadata.type = LatestApplied.kind
               /\ last.decoration.metadata.type \in {"tool", "resource"}
               /\ last.decoration.metadata.title = LatestApplied.title
               /\ last.decoration.metadata.description = LatestApplied.description
               /\ last.decoration.metadata.uri_template = LatestApplied.uri_template
    /\ last.op = "is_mcp_endpoint" =>
          /\ last.decoration.is_endpoint <=> (last.decoration.applied # <<>>)
          /\ last.decoration.is_endpoint <=> (get_mcp_metadata_attr(last.decoration.func) # NoMeta)

\* a function decorated as a resource and then as a tool with another description
C23_Witness ==
    /\ last.op = "get_mcp_metadata"
    /\ Len(last.decoration.applied) = 2
    /\ last.decoration.applied[1].kind = "resource"
    /\ last.decoration.applied[1].description = <<>>
    /\ LatestApplied = Applied("tool", <<>>, T_up, T_sum)
    /\ last.decoration.metadata = MCPMetadata("tool", T_up, T_sum, <<>>, <<>>)

\* setup has been entered at least once on this instance
SetupHasRun == setup_calls > 0

\* C24: a request that is served after the wrapped application has completed
\* its startup under a lifespan call of LihilMCP finds the MCP endpoints set
\* up; when the application's lifespan handling raises, setup does not run.
C24_SetupAfterStartup ==
    [][/\ (lifespan = "started" /\ last'.op = "asgi" /\ last' # last) => SetupHasRun
       /\ (last'.outcome = "AppError" /\ last' # last) =>
             UNCHANGED <<tools, resources, endpoint_map, downstream, mcp_setup_complete, setup_calls>>]_vars

\* every registering pair of the plan has one wrapper downstream, in iteration order
InstalledOnceOn(plan) == KindKeys(downstream) = RegistrationsUpTo(plan, Len(plan))

\* a step on an instance whose setup has succeeded leaves the registry and
\* the downstream server alone, and a setup call among them returns without
\* reading the routes
NoSetupAfterSuccess ==
    mcp_setup_complete =>
        /\ UNCHANGED <<tools, resources, endpoint_map, downstream, mcp_setup_complete, setup_calls>>
        /\ (last'.op \in {"setup", "lifespan"} /\ last' # last /\ last'.outcome # "AppError") =>
              (last'.view = {} /\ last'.outcome = "ok")

AfterFailedSetup == ~mcp_setup_complete /\ setup_calls > 0

\* the first pair of the plan the downstream server refuses
FirstOffender(plan) ==
    CHOOSE i \in 1..Len(plan) : Offends(plan[i]) /\ \A j \in 1..(i - 1) : ~Offends(plan[j])

RECURSIVE Repeat(_, _)
Repeat(seq, n) == IF n = 0 THEN <<>> ELSE Repeat(seq, n - 1) \o seq

\* C26: after setup has raised MCPRegistrationError the flag is false, the
\* entries of the endpoints before the failing one and of the failing one
\* itself are in the tables and the endpoint map, and a dispatch of such a key
\* is not answered with not-found; every setup call made since construction
\* has walked the routes from the first one, so the wrappers of the endpoints
\* before the failing one are installed downstream once for each call.
FailedSetupKeptOn(plan) ==
    /\ SetupFailed =>
          /\ ~mcp_setup_complete
          /\ \A j \in 1..FirstOffender(plan) :
                /\ plan[j].kind = "tool" => plan[j].key \in (DOMAIN tools) \cap (DOMAIN endpoint_map)
                /\ plan[j].kind = "resource" => plan[j].key \in (DOMAIN resources) \cap (DOMAIN endpoint_map)
          /\ last.view = DOMAIN routes
          /\ KindKeys(downstream) = Repeat(RegistrationsUpTo(plan, FirstOffender(plan) - 1), setup_calls)
    /\ (AfterFailedSetup /\ (ToolDispatch \/ ResourceDispatch)) =>
          ((\E j \in 1..FirstOffender(plan) : Registers(plan[j]) /\ plan[j].key = last.key) =>
              /\ last.message # S_Tool \o last.key \o S_not_found
              /\ last.message # S_Resource \o last.key \o S_not_found)

C26_FailedSetupKept ==
    (SetupFailed \/ (AfterFailedSetup /\ (ToolDispatch \/ ResourceDispatch))) => FailedSetupKeptOn(Plan)

\* the second setup call has failed like the first, at a tagged tool that
\* follows another endpoint: the tool's own entry is there and the earlier
\* endpoint has two wrappers downstream
C26_Witness ==
    /\ SetupFailed
    /\ setup_calls = 2
    /\ routes = <<"root", "add">>
    /\ N_add \in rejects
    /\ N_add \in DOMAIN tools
    /\ Len(downstream) = 2
    /\ KindKey(downstream[1]) = KindKey(downstream[2])

\* C27: in every state the keys of the endpoint map are the keys of the tool
\* table together with the keys of the resource table, each tool entry is
\* stored under its name and each resource entry under its uri.
C27_KeySets ==
    /\ DOMAIN endpoint_map = (DOMAIN tools) \cup (DOMAIN resources)
    /\ \A k \in DOMAIN tools : tools[k].name = k
    /\ \A k \in DOMAIN resources : resources[k].uri = k

\* a read of the tools property after a setup that failed with entries in both tables
C27_Witness ==
    /\ AfterFailedSetup
    /\ last.op = "tools"
    /\ DOMAIN tools # {}
    /\ DOMAIN resources # {}
    /\ Cardinality(DOMAIN endpoint_map) > 1

\* C28: both dispatch entry points look a key up in the one endpoint map and
\* neither looks at the kind it was registered as. A tool dispatch of a key
\* registered as a resource binds and calls the callable kept under the key,
\* a resource dispatch of a key registered as a tool calls the callable kept
\* under it without arguments, and neither answers not-found; for a key that
\* is a tool name and a resource URI both tables have an entry and every
\* dispatch goes to the endpoint registered last under it.
SharedMapOn(plan) ==
    mcp_setup_complete =>
        /\ (ToolDispatch /\ last.key \in KeysUpTo(plan, Len(plan), "resource")) =>
              LET func == LastFuncOf(plan, last.key)
              IN  /\ last.message # S_Tool \o last.key \o S_not_found
                  /\ Bindable(func, last.kwargs) =>
                        (Len(last.calls) = 1 /\ last.calls[1].func = func)
                  /\ ~Bindable(func, last.kwargs) =>
                        /\ last.outcome = "MCPError"
                        /\ StartsWith(last.message, S_ErrCalling \o last.key \o S_colon)
                        /\ last.calls = <<>>
        /\ (ResourceDispatch /\ last.key \in KeysUpTo(plan, Len(plan), "tool")) =>
              LET func == LastFuncOf(plan, last.key)
              IN  /\ last.message # S_Resource \o last.key \o S_not_found
                  /\ RequiredNames(func) = {} => last.calls = <<Invocation(func, EmptyKwargs)>>
                  /\ RequiredNames(func) # {} =>
                        /\ last.outcome = "MCPError"
                        /\ StartsWith(last.message,
                                      S_ErrAccessing \o last.key \o S_colon \o FuncName(func)
                                         \o S_MissingPositional)
                        /\ last.calls = <<>>
        /\ \A k \in KeysUpTo(plan, Len(plan), "tool") \cap KeysUpTo(plan, Len(plan), "resource") :
              /\ k \in (DOMAIN tools) \cap (DOMAIN resources)
              /\ endpoint_map[k] = plan[LastIndexOf(plan, k)].item.endpoint

C28_SharedMap == SharedMapOn(Plan)

\* the tool add and then a resource tagged with the URI add: a tool dispatch
\* of add runs the resource's callable
C28_Witness ==
    /\ mcp_setup_complete
    /\ routes = <<"add", "alias">>
    /\ ToolDispatch
    /\ last.key = N_add
    /\ N_add \in (DOMAIN tools) \cap (DOMAIN resources)
    /\ last.calls = <<Invocation("alias", EmptyKwargs)>>
    /\ last.outcome = "ok"

\* ------------------------------------------------------------------------
\* Properties of the synthesized resource URIs
\* ------------------------------------------------------------------------
Separators == { "/", "_" }

\* a path without the separators at its two ends
RECURSIVE Core(_)
Core(p) ==
    IF Len(p) > 0 /\ p[1] \in Separators THEN Core(SubSeq(p, 2, Len(p)))
    ELSE IF Len(p) > 0 /\ p[Len(p)] \in Separators THEN Core(SubSeq(p, 1, Len(p) - 1))
    ELSE p

\* two paths that differ only in "/" versus "_" or in separators at their ends
SameUpToSeparators(p, q) ==
    /\ Len(Core(p)) = Len(Core(q))
    /\ \A i \in 1..Len(Core(p)) :
          Core(p)[i] = Core(q)[i] \/ (Core(p)[i] \in Separators /\ Core(q)[i] \in Separators)

\* a URI that is the scheme and then a path written with "_" for each separator inside
WrittenAs(uri, path) ==
    /\ StartsWith(uri, S_scheme)
    /\ LET rest == SubSeq(uri, Len(S_scheme) + 1, Len(uri))
       IN  /\ rest = Core(rest)
           /\ \A i \in 1..Len(rest) : rest[i] # "/"
           /\ SameUpToSeparators(rest, path)

\* the wrapper a setup that succeeded at once installed for the i-th pair
WrapperOf(plan, i) == downstream[Cardinality({ j \in 1..i : Registers(plan[j]) })]

AutoRead(p) == p.tag = "none" /\ p.kind = "resource"

\* the last registering pair whose wrapper has this key
LastUnder(plan, key) ==
    CHOOSE j \in 1..Len(plan) :
        /\ Registers(plan[j]) /\ WrapperOf(plan, j).key = key
        /\ \A l \in (j + 1)..Len(plan) : ~(Registers(plan[l]) /\ WrapperOf(plan, l).key = key)

\* C29: untagged GET endpoints of routes whose paths differ only in "/"
\* versus "_" or in separators at the ends are registered under one key, and
\* so is an untagged GET endpoint whose path written with "_" is the URI of a
\* tagged resource; the endpoint map then keeps, and every dispatch of the key
\* calls, the endpoint registered last under it; the path "/" gives "lihil://".
SlugCollisionsOn(plan) ==
    /\ SetupReturned =>
          /\ \A i \in 1..Len(plan) : \A j \in 1..Len(plan) :
                (/\ AutoRead(plan[j])
                 /\ \/ AutoRead(plan[i])
                          /\ SameUpToSeparators(plan[i].item.route.path, plan[j].item.route.path)
                    \/ plan[i].tag = "resource"
                          /\ WrittenAs(get_mcp_metadata(plan[i].item.endpoint.func).uri_template,
                                       plan[j].item.route.path))
                => WrapperOf(plan, i).key = WrapperOf(plan, j).key
          /\ \A j \in 1..Len(plan) :
                Registers(plan[j]) =>
                    /\ WrapperOf(plan, j).key \in DOMAIN endpoint_map
                    /\ endpoint_map[WrapperOf(plan, j).key] =
                           plan[LastUnder(plan, WrapperOf(plan, j).key)].item.endpoint
                    /\ (AutoRead(plan[j]) /\ plan[j].item.route.path = P_root) =>
                           WrapperOf(plan, j).key = S_scheme
    /\ (ResourceDispatch /\ Registered /\ Len(last.calls) = 1) =>
          last.calls[1].func = plan[LastUnder(plan, last.key)].item.endpoint.func

C29_SlugCollisions == mcp_setup_complete => SlugCollisionsOn(Plan)

\* the routes /a/b and /a_b, the second with a resource tagged lihil://a_b
\* and an untagged GET endpoint: three endpoints under one key, and a
\* dispatch of the key that gets to the last one
C29_Witness ==
    /\ mcp_setup_complete
    /\ auto_expose
    /\ routes = <<"a/b", "a_b">>
    /\ ResourceDispatch
    /\ last.key = U_health
    /\ Cardinality({ w \in DOMAIN downstream : downstream[w].key = U_health }) = 3
    /\ endpoint_map[U_health].func = "need"
    /\ StartsWith(last.message, S_ErrAccessing \o U_health \o S_colon \o N_need)

\* ------------------------------------------------------------------------
\* Properties of the configuration
\* ------------------------------------------------------------------------
LastAsOutcome == Outcome(last.outcome, last.value, last.message, last.calls)

\* C30: two instances over the same routes whose configurations agree on
\* auto_expose and differ in enabled, expose_docs, auth_required or transport
\* have the same tables, endpoint map, flag and downstream registrations after
\* the same setup calls, and the same outcome for every dispatch; the instance
\* with enabled = False registers what the routes call for and invokes the
\* callable of a registered key.
ConfigIndependenceOn(plan) ==
    /\ twin.tools = tools
    /\ twin.resources = resources
    /\ twin.endpoint_map = endpoint_map
    /\ twin.complete = mcp_setup_complete
    /\ twin.downstream = downstream
    /\ last.op \in {"setup", "call_endpoint", "call_endpoint_as_resource"} =>
          LastAsOutcome \in twin.outcomes
    /\ last.op \in {"setup", "call_endpoint_as_resource"} => twin.outcomes = { LastAsOutcome }
    /\ ToolDispatch => twin.outcomes = call_endpoint(endpoint_map, last.key, last.kwargs)
    /\ (SetupReturned /\ mcp_setup_complete /\ ~config.enabled) =>
          /\ DOMAIN tools = KeysUpTo(plan, Len(plan), "tool")
          /\ DOMAIN resources = KeysUpTo(plan, Len(plan), "resource")
    /\ (ToolDispatch /\ Registered /\ ~config.enabled) =>
          (Bindable(endpoint_map[last.key].func, last.kwargs) => Len(last.calls) = 1)

====
